---- MODULE Spec2Model ----
(***************************************************************************)
(* A model of the MCP session core of the python SDK: one requesting peer, *)
(* the server side session (inbound loop, responders, initialization gate) *)
(* and the message loop of Server.run.                                     *)
(*                                                                         *)
(* Server.run and the ServerSession hooks are translated from the source.  *)
(* shared/session.py (BaseSession, RequestResponder) is not part of the    *)
(* source tree; it is modelled from sections 4.3 and 5 of the              *)
(* specification.                                                          *)
(***************************************************************************)
EXTENDS Integers, Sequences, FiniteSets, TLC

\* ------------------------------------------------------------------ bounds
\* number of requests the peer sends on the session
MaxRequests == 2
\* capacity of the peer -> server message stream (the in-memory streams are
\* created with a buffer of one item); a send blocks while it is full
StreamCap == 1
\* number of those requests whose outbound send raises
MaxSendFailures == 1
\* number of explicit notifications/cancelled the peer sends
MaxCancels == 1
\* number of notifications/initialized the peer sends
MaxInitialized == 1

\* ------------------------------------------------------- program constants
METHOD_NOT_FOUND == -32601
HANDLER_ERROR_CODE == 0

\* ---------------------------------------------------------------- wire types
\* RequestId = str | int: an id is a tagged value, so that "1" and 1 differ
IdKinds == {"int", "str"}
RequestId(k, n) == [k |-> k, n |-> n]

\* the requests the peer issues: the handshake, the always registered ping,
\* a registered handler that suspends, and a method nobody registered
Methods == {"initialize", "ping", "tools/call", "resources/list"}

\* Server.__init__ registers the ping handler; the application registered
\* a call_tool handler
request_handlers == {"ping", "tools/call"}
notification_handlers == {}

JSONRPCRequest(id, method) == [type |-> "request", id |-> id, method |-> method]
JSONRPCNotification(method, id) ==
    [type |-> "notification", method |-> method, requestId |-> id]
NoId == RequestId("none", 0)

InitializedNotification == JSONRPCNotification("notifications/initialized", NoId)
CancelledNotification(id) == JSONRPCNotification("notifications/cancelled", id)

\* results and errors a responder can be settled with
Result(method) == [error |-> FALSE, code |-> 0, message |-> method]
ErrorData(code, message) == [error |-> TRUE, code |-> code, message |-> message]

\* request_ctx: a context variable without a default; get() on it raises
\* LookupError while it is not set
Unset == [lookup_error |-> TRUE]
RequestContext(id) == [lookup_error |-> FALSE, request_id |-> id]
\* the token of request_ctx.set(): it keeps the value the variable had
Token(old_value) == [held |-> TRUE, old_value |-> old_value]
NoToken == [held |-> FALSE]

VARIABLES
    \* ---- requesting peer (BaseSession.send_request side)
    request_id,         \* monotonic request counter
    response_streams,   \* ids with an installed single-shot response slot
    calls,              \* id -> outcome of the peer's send_request
    cancels_sent,       \* explicit cancelled notifications issued so far
    initialized_sent,   \* notifications/initialized issued so far
    \* ---- the two message streams
    c2s,                \* peer -> server, in wire order
    s2c,                \* server -> peer, in wire order
    \* ---- server session
    initialization_state,
    in_flight,          \* ids registered in the session's in-flight table
    responders,         \* id -> RequestResponder of every request taken up
    incoming_messages,  \* the item the inbound loop is handing to Server.run
    session_open,       \* FALSE once the session has shut down
    \* ---- Server.run
    run_pc,             \* "recv": awaiting a message, "handler": in a handler
    message,            \* the responder Server.run is handling
    raise_exceptions,
    invoked,            \* ids whose handler has been called
    request_ctx,        \* the context variable: Unset or a RequestContext
    token,              \* what request_ctx.set() returned, NoToken when none is held
    \* ---- history
    sent,               \* id -> the responses/errors the server put on the wire
    delivered,          \* id -> number of responses handed to the waiter
    dropped             \* ids of responses the peer discarded (no slot)

VARIABLES
    \* ---- Server handler tables and capabilities
    registered,             \* keys of Server.request_handlers
    notification_options,   \* the NotificationOptions handed to get_capabilities
    capabilities            \* what the latest get_capabilities call returned

VARIABLES
    \* ---- Streamable HTTP: the server side of one session
    http_session,       \* "none", "open" or "terminated"
    mcp_session_id,     \* the session id the server's transport was made with
    standalone_stream,  \* holder of the GET stream: "none", "client", "raw"
    request_streams,    \* request ids with an open per-request SSE sink
    tool_calls,         \* request id -> "queued", "running", "sampling", "sampled"
    emitted,            \* notifications the handlers have emitted
    routed,             \* history: where each emitted message was put
    http_response,      \* the latest HTTP exchange and its status
    raw_requests,       \* requests issued by the plain HTTP client
    \* ---- events on the wire towards the SDK client
    post_sse,           \* events of the POST response the client is reading
    standalone_sse,     \* events of the client's GET stream
    \* ---- streamablehttp_client
    session_id,         \* "none" or the adopted Mcp-Session-Id
    write_stream,       \* senders blocked on the outbound stream, in order
    read_stream,        \* senders blocked on the inbound stream, in order
    read_stream_writer, \* "open" or "closed": the sending end of the inbound stream
    post_pc,            \* post_writer: "idle", "sse", "done"
    post_req,           \* id of the request whose response post_writer reads
    get_pc,             \* get_stream: "not_started", "started", "open", "done"
    \* ---- ClientSession
    client_pc,
    results,            \* request id -> the result or error send_request got
    notifications_received,
    sampling_callback_invoked,
    termination         \* what terminate_session() made of the DELETE's answer

VARIABLES
    \* ---- the reader task of a transport (stdin_reader, ws_reader, the SSE
    \* loop of post_writer)
    transport,          \* "stdio", "websocket" or "streamable_http"
    frames,             \* the frames the connection carries until it ends
    frames_read,        \* how many of them the reader has taken
    reader_pc,          \* "read", "send" or "closed"
    reader_item,        \* the item the reader is blocked sending
    inbound             \* what the read stream has yielded, in order

VARIABLES
    \* ---- stdout_reader of stdio_client
    chunks,             \* what TextReceiveStream(process.stdout) yields, in order
    chunks_read,        \* how many of them stdout_reader has taken
    buffer,             \* the text after the last newline seen so far
    lines,              \* the lines of the chunk in hand that are still to send
    stdout_pc,          \* "read", "send" or "closed"
    stdout_inbound      \* what the read stream has yielded, in order

VARIABLES
    \* ---- StreamableHTTPSessionManager and its event store
    has_started,        \* run() has been entered
    run_calls,          \* caller -> "idle", "running", "raised", "finished"
    events,             \* SimpleEventStore._events
    event_id_counter,   \* SimpleEventStore._event_id_counter
    replay              \* the latest replay_events_after call and its outcome

VARIABLES
    \* ---- MessageDispatch
    dispatch,           \* "memory" or "redis"
    subscribe_pc,       \* subscribe() context -> its session, its position
    session_state,      \* _callbacks / _session_state: session -> callback, tg
    session_keys,       \* sessions whose session_active key is in Redis
    channels,           \* sessions whose channel the pubsub is subscribed to
    pubsub_queue,       \* messages the pubsub connection has not handed over
    listeners,          \* contexts whose _listen_for_messages task is alive
    limiter,            \* the listener tasks that hold a token of _limiter
    handle_tasks,       \* _handle_message tasks started, and how far each got
    callback_log,       \* message -> the callbacks invoked with it, in order
    publish_log         \* message -> the publish_message call that carried it

peer_vars == <<request_id, response_streams, calls, cancels_sent, initialized_sent>>
wire_vars == <<c2s, s2c>>
session_vars == <<initialization_state, in_flight, responders, incoming_messages,
                  session_open>>
run_vars == <<run_pc, message, raise_exceptions, invoked, request_ctx, token>>
hist_vars == <<sent, delivered, dropped>>
caps_vars == <<registered, notification_options, capabilities>>
server_http == <<http_session, mcp_session_id, standalone_stream, request_streams, tool_calls,
                 emitted, routed, http_response, raw_requests>>
sse_vars == <<post_sse, standalone_sse>>
transport_vars == <<session_id, write_stream, read_stream, read_stream_writer, post_pc,
                    post_req, get_pc>>
client_vars == <<client_pc, results, notifications_received,
                 sampling_callback_invoked, termination>>
http_vars == <<server_http, sse_vars, transport_vars, client_vars>>
\* the state outside the Streamable HTTP session
reader_vars == <<transport, frames, frames_read, reader_pc, reader_item, inbound>>
manager_vars == <<has_started, run_calls>>
store_vars == <<events, event_id_counter, replay>>
redis_vars == <<session_keys, channels, pubsub_queue, listeners, limiter,
                handle_tasks>>
dispatch_vars == <<dispatch, subscribe_pc, session_state, redis_vars, callback_log,
                   publish_log>>
stdio_vars == <<chunks, chunks_read, buffer, lines, stdout_pc, stdout_inbound>>
beyond_http == <<reader_vars, manager_vars, store_vars, dispatch_vars, stdio_vars>>
\* the state outside the session core
beyond_session == <<caps_vars, http_vars, beyond_http>>
vars == <<peer_vars, wire_vars, session_vars, run_vars, hist_vars, beyond_session>>

\* ------------------------------------------------- Server.get_capabilities
None == [none |-> TRUE]

\* the methods whose handlers the decorators register, besides the ping
\* handler that Server.__init__ installs
Decorated == {"prompts/list", "resources/list", "tools/list", "logging/setLevel",
              "tools/call"}

NotificationOptions(prompts_changed, resources_changed, tools_changed) ==
    [prompts_changed |-> prompts_changed,
     resources_changed |-> resources_changed,
     tools_changed |-> tools_changed]

prompts_capability(handlers, options) ==
    IF "prompts/list" \in handlers
    THEN [listChanged |-> options.prompts_changed]
    ELSE None

\* mutant: the resources capability reads the tools option
resources_capability_ToolsOption(handlers, options) ==
    IF "resources/list" \in handlers
    THEN [subscribe |-> FALSE, listChanged |-> options.tools_changed]
    ELSE None

resources_capability(handlers, options) ==
    IF "resources/list" \in handlers
    THEN [subscribe |-> FALSE, listChanged |-> options.resources_changed]
    ELSE None

tools_capability(handlers, options) ==
    IF "tools/list" \in handlers
    THEN [listChanged |-> options.tools_changed]
    ELSE None

logging_capability(handlers) ==
    IF "logging/setLevel" \in handlers THEN [logging |-> TRUE] ELSE None

get_capabilities(handlers, options) ==
    [prompts |-> prompts_capability(handlers, options),
     resources |-> resources_capability(handlers, options),
     tools |-> tools_capability(handlers, options),
     logging |-> logging_capability(handlers)]

\* a server nobody asked for its capabilities
CapsIdle ==
    /\ registered = {"ping"}
    /\ notification_options = NotificationOptions(FALSE, FALSE, FALSE)
    /\ capabilities = get_capabilities({"ping"}, notification_options)

\* ------------------------------------------------- the other components at rest
\* the callers of StreamableHTTPSessionManager.run()
Callers == {"first", "second"}
\* the sessions of the SSE connections a message dispatch serves
DispatchSessions == {"a", "b"}
\* the subscribe() contexts entered on a dispatch
Contexts == {"c1", "c2"}
\* each context for a session of its own, or both for the same session
OwnSessions == [c \in Contexts |-> IF c = "c1" THEN "a" ELSE "b"]
SameSession == [c \in Contexts |-> "a"]
\* contexts not yet entered
NotEntered(session_of) ==
    [c \in Contexts |-> [session_id |-> session_of[c], at |-> "none",
                         cancelled |-> FALSE, raised |-> FALSE]]

\* a connection nothing arrives on
ReaderIdle ==
    /\ transport = "stdio"
    /\ frames = <<>>
    /\ frames_read = 0
    /\ reader_pc = "read"
    /\ reader_item = None
    /\ inbound = <<>>

\* a manager nobody has run, with an empty event store
ManagerIdle ==
    /\ has_started = FALSE
    /\ run_calls = [c \in Callers |-> "idle"]
    /\ events = <<>>
    /\ event_id_counter = 0
    /\ replay = None

\* a dispatch without subscriptions
DispatchIdle ==
    /\ dispatch = "memory"
    /\ subscribe_pc = NotEntered(OwnSessions)
    /\ session_state = <<>>
    /\ session_keys = {}
    /\ channels = {}
    /\ pubsub_queue = <<>>
    /\ listeners = {}
    /\ limiter = {}
    /\ handle_tasks = {}
    /\ callback_log = <<>>
    /\ publish_log = <<>>

\* a server process that writes nothing
StdioIdle ==
    /\ chunks = <<>>
    /\ chunks_read = 0
    /\ buffer = <<>>
    /\ lines = <<>>
    /\ stdout_pc = "read"
    /\ stdout_inbound = <<>>

BeyondHttpIdle == ReaderIdle /\ ManagerIdle /\ DispatchIdle /\ StdioIdle

\* ------------------------------------------------- Streamable HTTP at rest
\* no session yet, the client transport started, ClientSession not yet used
HttpAtRest ==
    /\ http_session = "none"
    /\ standalone_stream = "none"
    /\ request_streams = {}
    /\ tool_calls = <<>>
    /\ emitted = 0
    /\ routed = {}
    /\ http_response = [n |-> 0, by |-> "", verb |-> "", header |-> "none",
                        status |-> 0]
    /\ raw_requests = 0
    /\ post_sse = <<>>
    /\ standalone_sse = <<>>
    /\ session_id = "none"
    /\ write_stream = <<>>
    /\ read_stream = <<>>
    /\ read_stream_writer = "open"
    /\ post_pc = "idle"
    /\ post_req = NoId
    /\ get_pc = "not_started"
    /\ client_pc = "start"
    /\ results = <<>>
    /\ notifications_received = {}
    /\ sampling_callback_invoked = FALSE
    /\ termination = "not_called"

HttpIdle ==
    /\ mcp_session_id = "S1"
    /\ HttpAtRest

Init ==
    /\ CapsIdle
    /\ HttpIdle
    /\ BeyondHttpIdle
    /\ request_id = 0
    /\ response_streams = {}
    /\ calls = <<>>
    /\ cancels_sent = 0
    /\ initialized_sent = 0
    /\ c2s = <<>>
    /\ s2c = <<>>
    /\ initialization_state = "NotInitialized"
    /\ in_flight = {}
    /\ responders = <<>>
    /\ incoming_messages = <<>>
    /\ session_open = TRUE
    /\ run_pc = "recv"
    /\ message = NoId
    /\ raise_exceptions \in BOOLEAN
    /\ invoked = {}
    /\ request_ctx = Unset
    /\ token = NoToken
    /\ sent = <<>>
    /\ delivered = <<>>
    /\ dropped = {}

\* ------------------------------------------------ requesting peer (client)
\* the outcome of one send_request as its caller sees it
Outcome(state, code, msg) == [state |-> state, code |-> code, message |-> msg]
Pending == Outcome("pending", 0, "")

\* mutant: the slot installed for the request stays behind
SlotsAfterSendFailure_Leak(slots, id) == slots \cup {id}

\* send_request step 6: the slot installed for the request is removed again
\* before the send failure is propagated
SlotsAfterSendFailure(slots, id) == (slots \cup {id}) \ {id}

\* send_request steps 1-3 (and 6): fresh id, response slot, emit on the sink.
\* fails: the outbound send raises.
SendRequest(method, k, fails) ==
    /\ request_id < MaxRequests
    /\ \A i \in DOMAIN calls : i.k = k   \* a peer numbers its requests in one style
    /\ fails \/ Len(c2s) < StreamCap
    /\ fails => Cardinality({i \in DOMAIN calls : calls[i].state = "send_failed"})
                    < MaxSendFailures
    /\ LET id == RequestId(k, request_id) IN
        /\ request_id' = request_id + 1
        /\ IF fails
           THEN /\ response_streams' = SlotsAfterSendFailure(response_streams, id)
                /\ calls' = calls @@ (id :> Outcome("send_failed", 0, "send failed"))
                /\ c2s' = c2s
           ELSE /\ response_streams' = response_streams \cup {id}
                /\ calls' = calls @@ (id :> Pending)
                /\ c2s' = Append(c2s, JSONRPCRequest(id, method))
        /\ delivered' = delivered @@ (id :> 0)
    /\ UNCHANGED <<beyond_session, cancels_sent, initialized_sent, s2c, session_vars, run_vars,
                   sent, dropped>>

\* mutant: the timeout fails the caller without telling the other side
TimeoutEmits_Nothing(id) == <<>>

\* send_request step 5: on timeout emit notifications/cancelled{requestId},
\* remove the slot, fail the caller with "request timed out"
TimeoutEmits(id) == <<CancelledNotification(id)>>

Timeout(id) ==
    /\ id \in DOMAIN calls
    /\ calls[id] = Pending
    /\ id \in response_streams
    /\ Len(c2s) < StreamCap
    /\ c2s' = c2s \o TimeoutEmits(id)
    /\ response_streams' = response_streams \ {id}
    /\ calls' = [calls EXCEPT ![id] = Outcome("timed_out", 0, "request timed out")]
    /\ UNCHANGED <<beyond_session, request_id, cancels_sent, initialized_sent, s2c, session_vars,
                   run_vars, hist_vars>>

\* send_notification: serialize and push, no correlation state.
\* The peer cancels a request it has sent, before or after that request settled.
SendCancelled(id) ==
    /\ cancels_sent < MaxCancels
    /\ id \in DOMAIN calls
    /\ calls[id].state # "send_failed"
    /\ Len(c2s) < StreamCap
    /\ cancels_sent' = cancels_sent + 1
    /\ c2s' = Append(c2s, CancelledNotification(id))
    /\ UNCHANGED <<beyond_session, request_id, response_streams, calls, initialized_sent, s2c,
                   session_vars, run_vars, hist_vars>>

SendInitialized ==
    /\ initialized_sent < MaxInitialized
    /\ Len(c2s) < StreamCap
    /\ initialized_sent' = initialized_sent + 1
    /\ c2s' = Append(c2s, InitializedNotification)
    /\ UNCHANGED <<beyond_session, request_id, response_streams, calls, cancels_sent, s2c,
                   session_vars, run_vars, hist_vars>>

\* what the waiter of a request is woken with
Settled(response) ==
    IF response.error
    THEN Outcome("error", response.code, response.message)
    ELSE Outcome("result", 0, response.message)

\* inbound loop of the peer: a Response/Error with a known id wakes the waiter
\* and removes the slot; one with an unknown id is logged and dropped
PeerReceive ==
    /\ s2c # <<>>
    /\ LET m == Head(s2c) IN
        /\ s2c' = Tail(s2c)
        /\ IF m.id \in response_streams
           THEN /\ response_streams' = response_streams \ {m.id}
                /\ calls' = [calls EXCEPT ![m.id] = Settled(m.response)]
                /\ delivered' = [delivered EXCEPT ![m.id] = @ + 1]
                /\ dropped' = dropped
           ELSE /\ dropped' = dropped \cup {m.id}
                /\ UNCHANGED <<response_streams, calls, delivered>>
    /\ UNCHANGED <<beyond_session, request_id, cancels_sent, initialized_sent, c2s, session_vars,
                   run_vars, sent>>

\* stream closure: all pending response slots are failed with a terminal error
PeerStreamClosed ==
    /\ ~session_open
    /\ s2c = <<>>
    /\ response_streams # {}
    /\ calls' = [id \in DOMAIN calls |->
                    IF id \in response_streams
                    THEN Outcome("closed", 0, "connection closed")
                    ELSE calls[id]]
    /\ response_streams' = {}
    /\ UNCHANGED <<beyond_session, request_id, cancels_sent, initialized_sent, wire_vars,
                   session_vars, run_vars, hist_vars>>

\* ------------------------------------------------- RequestResponder
\* one-shot capability to reply to one inbound request
RequestResponder(id, method) ==
    [request_id |-> id, method |-> method, completed |-> FALSE, cancelled |-> FALSE]

\* mutant: the id is normalised to an integer on the way out
JSONRPCResponse_IntId(id, response) ==
    [id |-> RequestId("int", id.n), response |-> response]

\* the Response/Error put on the wire for a responder: it carries the
\* responder's request id
JSONRPCResponse(id, response) == [id |-> id, response |-> response]

\* history of the wire: what has been sent for each request id
Logged(log, response) ==
    IF response.id \in DOMAIN log
    THEN [log EXCEPT ![response.id] = Append(@, response)]
    ELSE log @@ (response.id :> <<response>>)

\* mutant: respond() does not look at the settled flag
RespondSends_Always(responder) == TRUE

\* respond() acts only on a responder that has not been settled
RespondSends(responder) == ~responder.completed

\* mutant: the entry is left behind on settle
InFlightAfterSettle_Keep(table, id) == table

\* on settle the responder removes itself from the in-flight table
InFlightAfterSettle(table, id) == table \ {id}

\* ------------------------------------------------- ServerSession hooks
\* ServerSession._received_request
ReceivedRequestState(state, method) ==
    IF method = "initialize" THEN "Initializing" ELSE state

ReceivedRequestResponds(method) == method = "initialize"

ReceivedRequestRaises(state, method) ==
    /\ method # "initialize"
    /\ state # "Initialized"

\* ServerSession._received_notification
ReceivedNotificationState(state, method) ==
    IF method = "notifications/initialized" THEN "Initialized" ELSE state

ReceivedNotificationRaises(state, method) ==
    /\ method # "notifications/initialized"
    /\ state # "Initialized"

\* mutant: the context variable is left as the handler call set it
request_ctx_reset_Skipped(value, held) == value

\* "finally: if token is not None: request_ctx.reset(token)"
request_ctx_reset(value, held) == IF held.held THEN held.old_value ELSE value

\* the finally block of the handler call in Server.run, also run when the
\* handler is cancelled with the session's task group
ResetContext ==
    /\ request_ctx' = request_ctx_reset(request_ctx, token)
    /\ token' = NoToken

\* the session shuts down: an exception left the inbound loop or Server.run;
\* the task group is cancelled and with it the handler in progress
Shutdown ==
    /\ session_open' = FALSE
    /\ run_pc' = "done"
    /\ message' = NoId
    /\ incoming_messages' = <<>>

\* ------------------------------------------------- inbound loop (server)
\* an inbound Request: allocate a responder, register it in in_flight, run the
\* session hook, and hand the responder to Server.run unless the hook settled it
ReceiveRequest(m) ==
    LET id == m.id
        rs == responders @@ (id :> RequestResponder(id, m.method))
        response == JSONRPCResponse(id, Result("initialize"))
    IN  IF ReceivedRequestRaises(initialization_state, m.method)
        THEN /\ responders' = rs
             /\ in_flight' = in_flight \cup {id}
             /\ Shutdown
             /\ ResetContext
             /\ UNCHANGED <<initialization_state, s2c, sent, invoked,
                            raise_exceptions>>
        ELSE /\ initialization_state' =
                    ReceivedRequestState(initialization_state, m.method)
             /\ IF ReceivedRequestResponds(m.method)
                THEN /\ responders' = [rs EXCEPT ![id].completed = TRUE]
                     /\ in_flight' = InFlightAfterSettle(in_flight \cup {id}, id)
                     /\ s2c' = Append(s2c, response)
                     /\ sent' = Logged(sent, response)
                     /\ incoming_messages' = incoming_messages
                ELSE /\ responders' = rs
                     /\ in_flight' = in_flight \cup {id}
                     /\ incoming_messages' =
                            <<[kind |-> "responder", id |-> id, method |-> m.method]>>
                     /\ UNCHANGED <<s2c, sent>>
             /\ UNCHANGED <<session_open, run_vars>>

\* an inbound Notification: run the session hook; notifications/cancelled
\* settles the in-flight responder of that id with "Request cancelled" (an
\* unknown or settled id is ignored); then hand the notification to Server.run
ReceiveNotification(m) ==
    LET id == m.requestId
        cancels == m.method = "notifications/cancelled" /\ id \in in_flight
        response == JSONRPCResponse(id, ErrorData(0, "Request cancelled"))
    IN  IF ReceivedNotificationRaises(initialization_state, m.method)
        THEN /\ Shutdown
             /\ ResetContext
             /\ UNCHANGED <<initialization_state, in_flight, responders, s2c, sent,
                            invoked, raise_exceptions>>
        ELSE /\ initialization_state' =
                    ReceivedNotificationState(initialization_state, m.method)
             /\ IF cancels
                THEN /\ responders' = [responders EXCEPT ![id].completed = TRUE,
                                                          ![id].cancelled = TRUE]
                     /\ in_flight' = InFlightAfterSettle(in_flight, id)
                     /\ s2c' = Append(s2c, response)
                     /\ sent' = Logged(sent, response)
                ELSE UNCHANGED <<responders, in_flight, s2c, sent>>
             /\ incoming_messages' = <<[kind |-> "notification", id |-> id,
                                        method |-> m.method]>>
             /\ UNCHANGED <<session_open, run_vars>>

\* one iteration of the inbound loop; it is blocked while the previous item
\* has not been taken by Server.run (zero-capacity rendezvous)
ReceiveLoop ==
    /\ session_open
    /\ incoming_messages = <<>>
    /\ c2s # <<>>
    /\ c2s' = Tail(c2s)
    /\ IF Head(c2s).type = "request"
       THEN ReceiveRequest(Head(c2s))
       ELSE ReceiveNotification(Head(c2s))
    /\ UNCHANGED <<beyond_session, peer_vars, delivered, dropped>>

\* ------------------------------------------------- Server.run
\* mutant: an unknown method is reported like a failing handler
MethodNotFound_AsHandlerError == ErrorData(HANDLER_ERROR_CODE, "Method not found")

\* the answer to a request whose type is not in request_handlers
MethodNotFound == ErrorData(METHOD_NOT_FOUND, "Method not found")

\* mutant: the exception's message is replaced by a fixed text
HandlerFailure_Opaque(err) == ErrorData(HANDLER_ERROR_CODE, "Internal error")

\* "except Exception as err": the answer carries code 0 and str(err)
HandlerFailure(err) == ErrorData(HANDLER_ERROR_CODE, err)

\* what the registered handlers raise when they fail
Exceptions == {"Unknown resource"}

\* handlers that reach a suspension point before they return;
\* _ping_handler returns without awaiting anything
Suspends(method) == method = "tools/call"

\* what is left on incoming_messages once Server.run holds its message: the
\* message it received is off the stream; one that the inbound loop handed over
\* while a handler ran is still waiting
Waiting == IF run_pc = "recv" THEN <<>> ELSE incoming_messages

\* message.respond(response), after which the loop awaits the next message.
\* A responder that is already settled does not send again: the call is a
\* no-op, or (rejects) an error, which leaves Server.run outside any try block.
Respond(id, response, rejects) ==
    IF RespondSends(responders[id])
    THEN /\ responders' = [responders EXCEPT ![id].completed = TRUE]
         /\ in_flight' = InFlightAfterSettle(in_flight, id)
         /\ s2c' = Append(s2c, JSONRPCResponse(id, response))
         /\ sent' = Logged(sent, JSONRPCResponse(id, response))
         /\ run_pc' = "recv"
         /\ message' = NoId
         /\ incoming_messages' = Waiting
         /\ UNCHANGED session_open
    ELSE /\ UNCHANGED <<responders, in_flight, s2c, sent>>
         /\ IF rejects
            THEN Shutdown
            ELSE /\ run_pc' = "recv"
                 /\ message' = NoId
                 /\ incoming_messages' = Waiting
                 /\ UNCHANGED session_open

\* the body of "async for message in session.incoming_messages" up to the
\* first suspension point of the handler
RunReceive ==
    /\ session_open
    /\ run_pc = "recv"
    /\ incoming_messages # <<>>
    /\ LET item == Head(incoming_messages) IN
        IF item.kind = "responder"
        THEN IF item.method \in request_handlers
             THEN /\ invoked' = invoked \cup {item.id}
                  /\ IF Suspends(item.method)
                     THEN /\ run_pc' = "handler"
                          /\ message' = item.id
                          /\ incoming_messages' = <<>>
                          /\ token' = Token(request_ctx)
                          /\ request_ctx' = RequestContext(item.id)
                          /\ UNCHANGED <<responders, in_flight, s2c, sent,
                                         session_open>>
                     ELSE /\ request_ctx' = request_ctx_reset(RequestContext(item.id),
                                                              Token(request_ctx))
                          /\ token' = NoToken
                          /\ \E rejects \in BOOLEAN :
                                Respond(item.id, Result(item.method), rejects)
             ELSE /\ invoked' = invoked
                  /\ UNCHANGED <<request_ctx, token>>
                  /\ \E rejects \in BOOLEAN :
                        Respond(item.id, MethodNotFound, rejects)
        ELSE /\ item.method \notin notification_handlers
             /\ incoming_messages' = <<>>
             /\ UNCHANGED <<responders, in_flight, s2c, sent, session_open,
                            run_pc, message, invoked, request_ctx, token>>
    /\ UNCHANGED <<beyond_session, peer_vars, c2s, initialization_state, raise_exceptions,
                   delivered, dropped>>

\* "response = await handler(req)" returns or raises, then message.respond.
\* With raise_exceptions the exception is re-raised and ends Server.run.
HandlerDone(raises, rejects) ==
    /\ session_open
    /\ run_pc = "handler"
    /\ ResetContext
    /\ IF raises /\ raise_exceptions
       THEN /\ Shutdown
            /\ UNCHANGED <<responders, in_flight, s2c, sent>>
       ELSE \E err \in Exceptions :
                Respond(message,
                        IF raises
                        THEN HandlerFailure(err)
                        ELSE Result(responders[message].method),
                        rejects)
    /\ UNCHANGED <<beyond_session, peer_vars, c2s, initialization_state, raise_exceptions,
                   invoked, delivered, dropped>>

\* ------------------------------------------------- specification
Next ==
    \/ \E method \in Methods, k \in IdKinds, fails \in BOOLEAN :
            SendRequest(method, k, fails)
    \/ \E id \in DOMAIN calls : Timeout(id)
    \/ \E id \in DOMAIN calls : SendCancelled(id)
    \/ SendInitialized
    \/ PeerReceive
    \/ PeerStreamClosed
    \/ ReceiveLoop
    \/ RunReceive
    \/ \E raises \in BOOLEAN, rejects \in BOOLEAN : HandlerDone(raises, rejects)

Spec == Init /\ [][Next]_vars

\* ------------------------------------------------- capabilities
\* the session core at rest
SessionIdle ==
    /\ request_id = 0
    /\ response_streams = {}
    /\ calls = <<>>
    /\ cancels_sent = 0
    /\ initialized_sent = 0
    /\ c2s = <<>>
    /\ s2c = <<>>
    /\ initialization_state = "NotInitialized"
    /\ in_flight = {}
    /\ responders = <<>>
    /\ incoming_messages = <<>>
    /\ session_open = TRUE
    /\ run_pc = "recv"
    /\ message = NoId
    /\ raise_exceptions = FALSE
    /\ invoked = {}
    /\ request_ctx = Unset
    /\ token = NoToken
    /\ sent = <<>>
    /\ delivered = <<>>
    /\ dropped = {}

session_core == <<peer_vars, wire_vars, session_vars, run_vars, hist_vars>>
\* the state outside the Streamable HTTP session and its client
outside_http == <<session_core, caps_vars, beyond_http>>

CapsInit ==
    /\ SessionIdle
    /\ HttpIdle
    /\ BeyondHttpIdle
    /\ registered = {"ping"}
    /\ notification_options \in
            {NotificationOptions(p, r, t) : p \in BOOLEAN, r \in BOOLEAN, t \in BOOLEAN}
    /\ capabilities = get_capabilities(registered, notification_options)

\* a decorator stores its handler in request_handlers
Register(method) ==
    /\ method \notin registered
    /\ registered' = registered \cup {method}
    /\ UNCHANGED <<notification_options, capabilities, session_core, http_vars,
                   beyond_http>>

GetCapabilities ==
    /\ capabilities' = get_capabilities(registered, notification_options)
    /\ UNCHANGED <<registered, notification_options, session_core, http_vars,
                   beyond_http>>

CapsNext ==
    \/ \E method \in Decorated : Register(method)
    \/ GetCapabilities

CapsSpec == CapsInit /\ [][CapsNext]_vars

\* ------------------------------------------------- Streamable HTTP: bounds
\* notifications the tool handlers emit
MaxEmits == 2
\* requests of the plain HTTP client (the "requests" calls of the tests)
MaxRaw == 2
\* tool calls the ClientSession makes after initialize
MaxCalls == 2

\* ------------------------------------------------- Streamable HTTP: messages
LATEST_PROTOCOL_VERSION == "2024-10-07"
SUPPORTED_PROTOCOL_VERSIONS == {LATEST_PROTOCOL_VERSION}
\* the protocolVersion a server may put in its InitializeResult
ServerVersions == {LATEST_PROTOCOL_VERSION, "1999-01-01"}

InitializeResult(version) ==
    [error |-> FALSE, code |-> 0, message |-> "initialize",
     protocolVersion |-> version]

\* the session ids a server may assign: the session manager draws one for the
\* transport it creates for an initialize request
SessionIds == {"S1", "S2"}

\* the ids ClientSession gives its requests, and those of the other parties
InitializeId == RequestId("int", 0)
CallId(n) == RequestId("int", n)
RawId(n) == RequestId("str", n)
SamplingId == RequestId("srv", 0)
OwnedByClient(id) == id.k = "int"

ResourceUpdatedNotification ==
    JSONRPCNotification("notifications/resources/updated", NoId)
CreateMessageRequest == JSONRPCRequest(SamplingId, "sampling/createMessage")

IsResponse(m) == "response" \in DOMAIN m
IsRequest(m) == ~IsResponse(m) /\ m.type = "request"
IsNotification(m) == ~IsResponse(m) /\ m.type = "notification"

\* an item a task is blocked sending on a zero-buffer stream
Item(from, msg) == [from |-> from, msg |-> msg]
Sending(stream, from) == \E i \in 1..Len(stream) : stream[i].from = from

\* ------------------------------------------------- transport (server side)
Stream(kind, id) == [kind |-> kind, id |-> id]
Standalone == Stream("standalone", NoId)
Dropped == Stream("dropped", NoId)

\* mutant: with the request's stream gone the message goes to the GET stream
RouteOf_Fallback(related, streams, standalone) ==
    IF related \in streams
    THEN Stream("request", related)
    ELSE IF standalone # "none" THEN Standalone ELSE Dropped

\* routing of an outbound message: by related_request_id (or response id) to
\* that request's stream; without association to the standalone stream; dropped
\* when the stream does not exist
RouteOf(related, streams, standalone) ==
    IF related # NoId
    THEN IF related \in streams THEN Stream("request", related) ELSE Dropped
    ELSE IF standalone # "none" THEN Standalone ELSE Dropped

\* session validation of a POST: header = the Mcp-Session-Id sent, or "none"
PostStatus(state, header, m) ==
    IF header = "none"
    THEN IF IsRequest(m) /\ m.method = "initialize" THEN 200 ELSE 400
    ELSE IF state # "open"
         THEN 404
         ELSE IF IsRequest(m) THEN 200 ELSE 202

\* mutant: a GET takes the standalone stream over
GetStatus_Replace(state, standalone) ==
    IF state # "open" THEN 404 ELSE 200

GetStatus(state, standalone) ==
    IF state # "open"
    THEN 404
    ELSE IF standalone # "none" THEN 409 ELSE 200

\* mutant: DELETE is answered with success whatever the session's state
DeleteStatus_Always(state) == 200

DeleteStatus(state) == IF state # "open" THEN 404 ELSE 200

\* the exchange of one HTTP request: who sent it, the Mcp-Session-Id header it
\* carried ("none": no such header) and the status it was answered with
Exchange(by, verb, header, status) ==
    [n |-> http_response.n + 1, by |-> by, verb |-> verb, header |-> header,
     status |-> status]

\* the transport writes message m, associated with request `related`
Deliver(m, related) ==
    LET to == RouteOf(related, request_streams, standalone_stream) IN
    /\ routed' = routed \cup {[method |-> m.method, related |-> related, on |-> to]}
    /\ post_sse' = IF to.kind = "request" /\ OwnedByClient(to.id)
                   THEN Append(post_sse, m)
                   ELSE post_sse
    /\ standalone_sse' = IF to.kind = "standalone" /\ standalone_stream = "client"
                         THEN Append(standalone_sse, m)
                         ELSE standalone_sse

\* ------------------------------------------------- ClientSession
\* mutant: the server's version is not looked at
VersionSupported_Any(version) == TRUE

VersionSupported(version) == version \in SUPPORTED_PROTOCOL_VERSIONS

\* initialize(): send_request(InitializeRequest)
ClientInitialize ==
    /\ client_pc = "start"
    /\ write_stream' = Append(write_stream,
                              Item("main", JSONRPCRequest(InitializeId, "initialize")))
    /\ client_pc' = "await_initialize"
    /\ UNCHANGED <<server_http, sse_vars, session_id, read_stream,
                   read_stream_writer, post_pc, post_req,
                   get_pc, results, notifications_received,
                   sampling_callback_invoked, termination, outside_http>>

\* initialize() after send_request returned or raised: the version check and
\* send_notification(InitializedNotification)
ClientAfterInitialize ==
    /\ client_pc = "got_initialize"
    /\ LET result == results[InitializeId] IN
        IF result.error
        THEN /\ client_pc' = "failed"
             /\ write_stream' = write_stream
        ELSE IF ~VersionSupported(result.protocolVersion)
             THEN /\ client_pc' = "failed"
                  /\ write_stream' = write_stream
             ELSE /\ client_pc' = "initialized"
                  /\ write_stream' = Append(write_stream,
                                            Item("main", InitializedNotification))
    /\ UNCHANGED <<server_http, sse_vars, session_id, read_stream,
                   read_stream_writer, post_pc, post_req,
                   get_pc, results, notifications_received,
                   sampling_callback_invoked, termination, outside_http>>

\* tool calls that have returned or raised
CallsDone == Cardinality(DOMAIN results \ {InitializeId})

\* call_tool(): a send_request, once the previous send has been taken
ClientCallTool ==
    /\ client_pc \in {"initialized", "called"}
    /\ CallsDone < MaxCalls
    /\ ~Sending(write_stream, "main")
    /\ write_stream' =
            Append(write_stream,
                   Item("main", JSONRPCRequest(CallId(CallsDone + 1), "tools/call")))
    /\ client_pc' = "await_call"
    /\ UNCHANGED <<server_http, sse_vars, session_id, read_stream,
                   read_stream_writer, post_pc, post_req,
                   get_pc, results, notifications_received,
                   sampling_callback_invoked, termination, outside_http>>

\* the session's receive loop takes one item off the inbound stream: a
\* response wakes its waiter, a notification goes to the message handler, a
\* sampling request goes to the callback, whose reply the loop then sends
ClientReceive ==
    /\ read_stream # <<>>
    /\ ~Sending(write_stream, "loop")
    /\ read_stream' = Tail(read_stream)
    /\ LET m == Head(read_stream).msg IN
        IF IsResponse(m)
        THEN /\ results' = IF m.id \in DOMAIN results
                           THEN results
                           ELSE results @@ (m.id :> m.response)
             /\ client_pc' =
                    IF client_pc = "await_initialize" /\ m.id = InitializeId
                    THEN "got_initialize"
                    ELSE IF client_pc = "await_call" /\ m.id = CallId(CallsDone + 1)
                         THEN "called"
                         ELSE client_pc
             /\ UNCHANGED <<write_stream, notifications_received,
                            sampling_callback_invoked>>
        ELSE IF IsNotification(m)
             THEN /\ notifications_received' = notifications_received \cup {m}
                  /\ UNCHANGED <<write_stream, results, client_pc,
                                 sampling_callback_invoked>>
             ELSE /\ sampling_callback_invoked' = TRUE
                  /\ write_stream' =
                        Append(write_stream,
                               Item("loop", JSONRPCResponse(m.id, Result(m.method))))
                  /\ UNCHANGED <<results, client_pc, notifications_received>>
    /\ UNCHANGED <<server_http, sse_vars, session_id, read_stream_writer, post_pc,
                   post_req, get_pc,
                   termination, outside_http>>

\* ------------------------------------------------- streamablehttp_client
\* mutant: the synthesized error does not name the request
SessionTerminated_NoId(id) ==
    JSONRPCResponse(NoId, ErrorData(32600, "Session terminated"))

\* the JSONRPCError post_writer synthesizes for a request answered 404
SessionTerminated(id) == JSONRPCResponse(id, ErrorData(32600, "Session terminated"))

\* mutant: the Mcp-Session-Id of the initialize response is ignored
AdoptSessionId_Never(is_initialization, new_session_id, current) == current

\* "if is_initialization: new_session_id = response.headers.get(...)": the
\* session id post_writer goes on with after a response
AdoptSessionId(is_initialization, new_session_id, current) ==
    IF is_initialization /\ new_session_id # "none"
    THEN new_session_id
    ELSE current

\* mutant: post_writer ends without closing its end of the inbound stream
post_writer_finally_LeavesOpen(writer) == writer

\* "finally: await read_stream_writer.aclose()" of post_writer
post_writer_finally(writer) == "closed"

\* one iteration of "async for message in write_stream_reader" up to the
\* status line of the POST, with the server's side of that exchange
PostWriterPost ==
    /\ post_pc = "idle"
    /\ write_stream # <<>>
    /\ ~Sending(read_stream, "post")
    /\ LET m == Head(write_stream).msg
           status == PostStatus(http_session, session_id, m)
       IN
        /\ write_stream' = Tail(write_stream)
        /\ http_response' = Exchange("client", "POST", session_id, status)
        /\ get_pc' = IF IsNotification(m) /\ m.method = "notifications/initialized"
                     THEN "started"
                     ELSE get_pc
        /\ IF status = 202
           THEN /\ tool_calls' =
                      IF IsResponse(m) /\ tool_calls # <<>>
                                       /\ Head(tool_calls).pc = "sampling"
                      THEN <<[Head(tool_calls) EXCEPT !.pc = "sampled"]>>
                                \o Tail(tool_calls)
                      ELSE tool_calls
                /\ UNCHANGED <<http_session, mcp_session_id, session_id, post_sse,
                               request_streams, read_stream, read_stream_writer,
                               post_pc, post_req>>
           ELSE IF status = 404 /\ IsRequest(m)
           THEN /\ read_stream' =
                      Append(read_stream, Item("post", SessionTerminated(m.id)))
                /\ UNCHANGED <<http_session, mcp_session_id, session_id, post_sse,
                               request_streams, tool_calls, read_stream_writer,
                               post_pc, post_req>>
           ELSE IF status # 200
           THEN /\ post_pc' = "done"
                /\ read_stream_writer' = post_writer_finally(read_stream_writer)
                /\ UNCHANGED <<http_session, mcp_session_id, session_id, post_sse,
                               request_streams, tool_calls, read_stream, post_req>>
           ELSE IF m.method = "initialize"
           THEN /\ http_session' = "open"
                /\ session_id' = AdoptSessionId(TRUE, mcp_session_id, session_id)
                /\ \E version \in ServerVersions :
                        post_sse' = Append(post_sse,
                                           JSONRPCResponse(m.id, InitializeResult(version)))
                /\ post_pc' = "sse"
                /\ post_req' = m.id
                /\ UNCHANGED <<mcp_session_id, request_streams, tool_calls,
                               read_stream, read_stream_writer>>
           ELSE /\ request_streams' = request_streams \cup {m.id}
                /\ tool_calls' = Append(tool_calls, [id |-> m.id, pc |-> "queued"])
                /\ post_pc' = "sse"
                /\ post_req' = m.id
                /\ session_id' = AdoptSessionId(FALSE, mcp_session_id, session_id)
                /\ UNCHANGED <<http_session, mcp_session_id, post_sse, read_stream,
                               read_stream_writer>>
    /\ UNCHANGED <<standalone_stream, emitted, routed, raw_requests, standalone_sse,
                   client_vars, outside_http>>

\* "async for sse in event_source.aiter_sse()": forward one event
PostWriterEvent ==
    /\ post_pc = "sse"
    /\ post_sse # <<>>
    /\ ~Sending(read_stream, "post")
    /\ read_stream' = Append(read_stream, Item("post", Head(post_sse)))
    /\ post_sse' = Tail(post_sse)
    /\ UNCHANGED <<server_http, standalone_sse, session_id, write_stream, post_pc,
                   post_req, read_stream_writer, get_pc, client_vars, outside_http>>

\* the response stream has ended: back to the outbound stream
PostWriterStreamEnd ==
    /\ post_pc = "sse"
    /\ post_sse = <<>>
    /\ post_req \notin request_streams
    /\ ~Sending(read_stream, "post")
    /\ post_pc' = "idle"
    /\ post_req' = NoId
    /\ UNCHANGED <<server_http, sse_vars, session_id, write_stream, read_stream,
                   read_stream_writer, get_pc, client_vars, outside_http>>

\* get_stream up to the status line of the GET
GetStreamConnect ==
    /\ get_pc = "started"
    /\ IF session_id = "none"
       THEN /\ get_pc' = "done"
            /\ UNCHANGED <<standalone_stream, http_response>>
       ELSE LET status == GetStatus(http_session, standalone_stream) IN
            /\ http_response' = Exchange("client", "GET", session_id, status)
            /\ IF status = 200
               THEN /\ standalone_stream' = "client"
                    /\ get_pc' = "open"
               ELSE /\ standalone_stream' = standalone_stream
                    /\ get_pc' = "done"
    /\ UNCHANGED <<http_session, mcp_session_id, request_streams, tool_calls,
                   emitted, routed, raw_requests, sse_vars, session_id,
                   write_stream, read_stream,
                   post_pc, post_req, read_stream_writer, client_vars, outside_http>>

\* "async for sse in event_source.aiter_sse()" of get_stream: forward one
\* event; on a closed inbound stream the send raises and get_stream ends
GetStreamEvent ==
    /\ get_pc = "open"
    /\ standalone_sse # <<>>
    /\ ~Sending(read_stream, "get")
    /\ standalone_sse' = Tail(standalone_sse)
    /\ IF read_stream_writer = "closed"
       THEN /\ get_pc' = "done"
            /\ UNCHANGED read_stream
       ELSE /\ read_stream' = Append(read_stream, Item("get", Head(standalone_sse)))
            /\ UNCHANGED get_pc
    /\ UNCHANGED <<server_http, post_sse, session_id, write_stream, post_pc,
                   post_req, read_stream_writer, client_vars, outside_http>>

GetStreamEnd ==
    /\ get_pc = "open"
    /\ standalone_stream # "client"
    /\ standalone_sse = <<>>
    /\ ~Sending(read_stream, "get")
    /\ get_pc' = "done"
    /\ UNCHANGED <<server_http, sse_vars, session_id, write_stream, read_stream,
                   post_pc, post_req, read_stream_writer, client_vars, outside_http>>

\* client.stream("POST", ...) raises instead of giving a response (a network
\* exception): "except Exception" logs it and post_writer ends
PostWriterRaises ==
    /\ post_pc = "idle"
    /\ write_stream # <<>>
    /\ ~Sending(read_stream, "post")
    /\ write_stream' = Tail(write_stream)
    /\ get_pc' = IF IsNotification(Head(write_stream).msg)
                    /\ Head(write_stream).msg.method = "notifications/initialized"
                 THEN "started"
                 ELSE get_pc
    /\ post_pc' = "done"
    /\ read_stream_writer' = post_writer_finally(read_stream_writer)
    /\ UNCHANGED <<server_http, sse_vars, session_id, read_stream, post_req,
                   client_vars, outside_http>>

\* the session is left and closes its end of the outbound stream
ClientExit ==
    /\ client_pc \in {"initialized", "called", "failed"}
    /\ client_pc' = "closed"
    /\ UNCHANGED <<server_http, sse_vars, transport_vars, results,
                   notifications_received, sampling_callback_invoked, termination,
                   outside_http>>

\* "async for message in write_stream_reader" ends: the outbound stream is
\* closed and nothing is left in it
PostWriterOutboundClosed ==
    /\ post_pc = "idle"
    /\ write_stream = <<>>
    /\ client_pc = "closed"
    /\ post_pc' = "done"
    /\ read_stream_writer' = post_writer_finally(read_stream_writer)
    /\ UNCHANGED <<server_http, sse_vars, session_id, write_stream, read_stream,
                   post_req, get_pc, client_vars, outside_http>>

\* the request the session is waiting for the response of
Awaited ==
    IF client_pc = "await_initialize"
    THEN {InitializeId}
    ELSE IF client_pc = "await_call" THEN {CallId(CallsDone + 1)} ELSE {}

\* the session's receive loop finds the inbound stream closed and empty:
\* end-of-stream; the request it was waiting for fails with a terminal error
ClientEndOfStream ==
    /\ read_stream_writer = "closed"
    /\ read_stream = <<>>
    /\ client_pc \notin {"closed", "end_of_stream"}
    /\ client_pc' = "end_of_stream"
    /\ results' = [id \in DOMAIN results \cup Awaited |->
                        IF id \in DOMAIN results
                        THEN results[id]
                        ELSE ErrorData(0, "connection closed")]
    /\ UNCHANGED <<server_http, sse_vars, transport_vars, notifications_received,
                   sampling_callback_invoked, termination, outside_http>>

\* the statuses a server answers the DELETE of an open session with: success
\* (200 or 204), or 405 when it does not permit termination by the client
DeleteReplies == {200, 204, 405}

\* what terminate_session() makes of the DELETE's status: "not_allowed" is the
\* debug line for 405, "failed" the warning "Session termination failed",
\* "terminated" the silent return
TerminationOutcome(status) ==
    IF status = 405
    THEN "not_allowed"
    ELSE IF status # 200 THEN "failed" ELSE "terminated"

\* terminate_session(): the DELETE with the adopted session id, and the
\* server's side of that exchange; the caller is done with the session
TerminateSession ==
    /\ termination = "not_called"
    /\ client_pc \in {"start", "initialized", "called", "failed"}
    /\ IF session_id = "none"
       THEN /\ termination' = "no_session"
            /\ UNCHANGED <<http_session, standalone_stream, request_streams,
                           tool_calls, http_response, client_pc>>
       ELSE \E reply \in DeleteReplies :
            LET status == IF DeleteStatus(http_session) = 200
                          THEN reply
                          ELSE DeleteStatus(http_session)
            IN
            /\ http_response' = Exchange("client", "DELETE", session_id, status)
            /\ termination' = TerminationOutcome(status)
            /\ client_pc' = "closed"
            /\ IF status \in {200, 204}
               THEN /\ http_session' = "terminated"
                    /\ standalone_stream' = "none"
                    /\ request_streams' = {}
                    /\ tool_calls' = <<>>
               ELSE UNCHANGED <<http_session, standalone_stream, request_streams,
                                tool_calls>>
    /\ UNCHANGED <<mcp_session_id, emitted, routed, raw_requests, sse_vars,
                   transport_vars, results, notifications_received,
                   sampling_callback_invoked, outside_http>>

\* ------------------------------------------------- tool handlers (server)
\* the request ids a handler may name in related_request_id
Related == {NoId} \cup {CallId(i) : i \in 1..MaxCalls}
                  \cup {RawId(i) : i \in 1..MaxRaw}

SetPc(calls_, pc) == <<[Head(calls_) EXCEPT !.pc = pc]>> \o Tail(calls_)

\* Server.run takes the next request and calls its handler
HandlerStart ==
    /\ tool_calls # <<>>
    /\ Head(tool_calls).pc = "queued"
    /\ tool_calls' = SetPc(tool_calls, "running")
    /\ UNCHANGED <<http_session, mcp_session_id, standalone_stream, request_streams,
                   emitted, routed, http_response, raw_requests, sse_vars,
                   transport_vars,
                   client_vars, outside_http>>

\* send_log_message(related_request_id=...) / send_resource_updated()
HandlerEmit(related) ==
    /\ tool_calls # <<>>
    /\ Head(tool_calls).pc = "running"
    /\ emitted < MaxEmits
    /\ emitted' = emitted + 1
    /\ Deliver(IF related = NoId
               THEN ResourceUpdatedNotification
               ELSE JSONRPCNotification("notifications/message", NoId),
               related)
    /\ UNCHANGED <<http_session, mcp_session_id, standalone_stream, request_streams,
                   tool_calls, http_response, raw_requests, transport_vars,
                   client_vars,
                   outside_http>>

\* create_message(related_request_id=ctx.request_id): the handler waits for
\* the client's reply
HandlerSample ==
    /\ tool_calls # <<>>
    /\ Head(tool_calls).pc = "running"
    /\ OwnedByClient(Head(tool_calls).id)
    /\ tool_calls' = SetPc(tool_calls, "sampling")
    /\ Deliver(CreateMessageRequest, Head(tool_calls).id)
    /\ UNCHANGED <<http_session, mcp_session_id, standalone_stream, request_streams,
                   emitted, http_response, raw_requests, transport_vars,
                   client_vars,
                   outside_http>>

\* the handler returns: the response goes to the request's stream, which closes
HandlerReturn ==
    /\ tool_calls # <<>>
    /\ Head(tool_calls).pc \in {"running", "sampled"}
    /\ LET id == Head(tool_calls).id
           text == IF Head(tool_calls).pc = "sampled"
                   THEN "Response from sampling"
                   ELSE "tools/call"
       IN
        /\ post_sse' = IF id \in request_streams /\ OwnedByClient(id)
                       THEN Append(post_sse, JSONRPCResponse(id, Result(text)))
                       ELSE post_sse
        /\ request_streams' = request_streams \ {id}
    /\ tool_calls' = Tail(tool_calls)
    /\ UNCHANGED <<http_session, mcp_session_id, standalone_stream, emitted, routed,
                   http_response, raw_requests, standalone_sse, transport_vars,
                   client_vars,
                   outside_http>>

\* ------------------------------------------------- plain HTTP client
\* requests.post with the session header: a tools/call
RawPost ==
    /\ http_session # "none"
    /\ raw_requests < MaxRaw
    /\ raw_requests' = raw_requests + 1
    /\ LET m == JSONRPCRequest(RawId(raw_requests + 1), "tools/call")
           status == PostStatus(http_session, mcp_session_id, m)
       IN
        /\ http_response' = Exchange("raw", "POST", mcp_session_id, status)
        /\ IF status = 200
           THEN /\ request_streams' = request_streams \cup {m.id}
                /\ tool_calls' = Append(tool_calls, [id |-> m.id, pc |-> "queued"])
           ELSE UNCHANGED <<request_streams, tool_calls>>
    /\ UNCHANGED <<http_session, mcp_session_id, standalone_stream, emitted, routed,
                   sse_vars, transport_vars, client_vars, outside_http>>

\* requests.get with the session header
RawGet ==
    /\ http_session # "none"
    /\ raw_requests < MaxRaw
    /\ raw_requests' = raw_requests + 1
    /\ LET status == GetStatus(http_session, standalone_stream) IN
        /\ http_response' = Exchange("raw", "GET", mcp_session_id, status)
        /\ standalone_stream' = IF status = 200 THEN "raw" ELSE standalone_stream
    /\ UNCHANGED <<http_session, mcp_session_id, request_streams, tool_calls, emitted,
                   routed, sse_vars, transport_vars, client_vars, outside_http>>

\* requests.delete with the session header: the session is terminated, its
\* handlers cancelled and its streams closed
RawDelete ==
    /\ http_session # "none"
    /\ raw_requests < MaxRaw
    /\ raw_requests' = raw_requests + 1
    /\ LET status == DeleteStatus(http_session) IN
        /\ http_response' = Exchange("raw", "DELETE", mcp_session_id, status)
        /\ IF status = 200
           THEN /\ http_session' = "terminated"
                /\ standalone_stream' = "none"
                /\ request_streams' = {}
                /\ tool_calls' = <<>>
           ELSE UNCHANGED <<http_session, standalone_stream, request_streams,
                            tool_calls>>
    /\ UNCHANGED <<mcp_session_id, emitted, routed, sse_vars, transport_vars,
                   client_vars,
                   outside_http>>

HttpInit ==
    /\ SessionIdle
    /\ CapsIdle
    /\ HttpIdle
    /\ BeyondHttpIdle

HttpNext ==
    \/ ClientInitialize
    \/ ClientAfterInitialize
    \/ ClientCallTool
    \/ ClientReceive
    \/ PostWriterPost
    \/ PostWriterEvent
    \/ PostWriterStreamEnd
    \/ GetStreamConnect
    \/ GetStreamEvent
    \/ GetStreamEnd
    \/ PostWriterRaises
    \/ ClientExit
    \/ PostWriterOutboundClosed
    \/ ClientEndOfStream
    \/ HandlerStart
    \/ \E related \in Related : HandlerEmit(related)
    \/ HandlerSample
    \/ HandlerReturn
    \/ RawPost
    \/ RawGet
    \/ RawDelete

HttpSpec == HttpInit /\ [][HttpNext]_vars

\* the SDK client alone with its server, up to terminate_session()
TerminateNext ==
    \/ ClientInitialize
    \/ ClientAfterInitialize
    \/ ClientCallTool
    \/ ClientReceive
    \/ PostWriterPost
    \/ PostWriterEvent
    \/ PostWriterStreamEnd
    \/ GetStreamConnect
    \/ GetStreamEvent
    \/ GetStreamEnd
    \/ TerminateSession
    \/ HandlerStart
    \/ \E related \in Related : HandlerEmit(related)
    \/ HandlerSample
    \/ HandlerReturn

TerminateInit ==
    /\ SessionIdle
    /\ CapsIdle
    /\ BeyondHttpIdle
    /\ mcp_session_id \in SessionIds
    /\ HttpAtRest

TerminateSpec == TerminateInit /\ [][TerminateNext]_vars

\* ------------------------------------------------- transport readers
\* frames on one connection
MaxFrames == 3

Transports == {"stdio", "websocket", "streamable_http"}

\* what a frame (a line of stdin, a websocket text, the data of an SSE event)
\* may hold: a JSON-RPC message, JSON that is no JSON-RPC message, or no JSON;
\* an SSE stream also carries events whose type is not "message"
FrameKinds(kind) ==
    {"message", "not_jsonrpc", "not_json"}
        \cup (IF kind = "streamable_http" THEN {"other_event"} ELSE {})

Decoded_Message == [kind |-> "message"]
Raised(exc) == [kind |-> "exception", exc |-> exc]

\* json.loads(raw_text)
json_loads(frame) ==
    IF frame = "not_json" THEN Raised("JSONDecodeError") ELSE [kind |-> "json"]

\* JSONRPCMessage.model_validate(data)
model_validate(frame) ==
    IF frame = "message" THEN Decoded_Message ELSE Raised("ValidationError")

\* JSONRPCMessage.model_validate_json(line)
model_validate_json(frame) ==
    IF frame = "not_json" THEN Raised("ValidationError") ELSE model_validate(frame)

\* mutant: a frame that fails to decode is logged and skipped
ReadFrame_SkipInvalid(kind, frame) ==
    IF frame = "message" THEN Decoded_Message ELSE None

\* the item one pass of the reader's loop sends on the read stream for a
\* frame; None: it sends nothing
ReadFrame(kind, frame) ==
    IF kind = "stdio"
    THEN model_validate_json(frame)
    ELSE IF kind = "websocket"
         THEN IF json_loads(frame).kind = "exception"
              THEN json_loads(frame)
              ELSE model_validate(frame)
         ELSE IF frame = "other_event" THEN None ELSE model_validate_json(frame)

\* the state outside the reader
outside_reader == <<session_core, caps_vars, http_vars, manager_vars, store_vars,
                    dispatch_vars, stdio_vars>>

\* "async for line in stdin" / "async for raw_text in ws" / "async for sse in
\* event_source.aiter_sse()": take the next frame and decode it
ReaderTake ==
    /\ reader_pc = "read"
    /\ frames_read < Len(frames)
    /\ frames_read' = frames_read + 1
    /\ LET item == ReadFrame(transport, frames[frames_read + 1]) IN
        IF item = None
        THEN UNCHANGED <<reader_pc, reader_item>>
        ELSE /\ reader_pc' = "send"
             /\ reader_item' = [n |-> frames_read + 1, item |-> item]
    /\ UNCHANGED <<transport, frames, inbound, outside_reader>>

\* "await read_stream_writer.send(...)" returns: the stream has no buffer, so
\* this is the moment the receiver takes the item
ReaderSend ==
    /\ reader_pc = "send"
    /\ inbound' = Append(inbound, reader_item)
    /\ reader_item' = None
    /\ reader_pc' = "read"
    /\ UNCHANGED <<transport, frames, frames_read, outside_reader>>

\* the connection ends: the loop is over and the reader returns
ReaderEnd ==
    /\ reader_pc = "read"
    /\ frames_read = Len(frames)
    /\ reader_pc' = "closed"
    /\ UNCHANGED <<transport, frames, frames_read, reader_item, inbound,
                   outside_reader>>

ReaderInit ==
    /\ SessionIdle
    /\ CapsIdle
    /\ HttpIdle
    /\ ManagerIdle
    /\ DispatchIdle
    /\ StdioIdle
    /\ transport \in Transports
    /\ frames \in UNION {[1..n -> FrameKinds(transport)] : n \in 0..MaxFrames}
    /\ frames_read = 0
    /\ reader_pc = "read"
    /\ reader_item = None
    /\ inbound = <<>>

ReaderNext ==
    \/ ReaderTake
    \/ ReaderSend
    \/ ReaderEnd

ReaderSpec == ReaderInit /\ [][ReaderNext]_vars

\* ------------------------------------------------- StreamableHTTPSessionManager
\* the state outside the manager and its event store
outside_manager == <<session_core, caps_vars, http_vars, reader_vars,
                     dispatch_vars, stdio_vars>>

\* mutant: run() does not look at the started flag
run_admits_Always(started) == TRUE

\* run() under its lock: a manager that has been started is not run again
run_admits(started) == ~started

\* "async with manager.run()": the check and the set of the flag are one step
\* under the lock; a refused caller gets RuntimeError
Run(caller) ==
    /\ run_calls[caller] = "idle"
    /\ IF run_admits(has_started)
       THEN /\ has_started' = TRUE
            /\ run_calls' = [run_calls EXCEPT ![caller] = "running"]
       ELSE /\ has_started' = has_started
            /\ run_calls' = [run_calls EXCEPT ![caller] = "raised"]
    /\ UNCHANGED <<store_vars, outside_manager>>

\* the body of the run() context ends; the flag stays set
RunExit(caller) ==
    /\ run_calls[caller] = "running"
    /\ run_calls' = [run_calls EXCEPT ![caller] = "finished"]
    /\ UNCHANGED <<has_started, store_vars, outside_manager>>

\* ------------------------------------------------- SimpleEventStore
\* events stored
MaxEvents == 3

StreamIds == {"stream_1", "stream_2"}

\* str(self._event_id_counter)
EventId(n) == ToString(n)

\* the Last-Event-Id values a reconnecting client may present
LastEventIds == {EventId(n) : n \in 0..(MaxEvents + 1)}

\* store_event(stream_id, message)
StoreEvent(stream_id) ==
    /\ event_id_counter < MaxEvents
    /\ event_id_counter' = event_id_counter + 1
    /\ events' = Append(events, [stream_id |-> stream_id,
                                  event_id |-> EventId(event_id_counter + 1),
                                  message |-> event_id_counter + 1])
    /\ UNCHANGED <<replay, manager_vars, outside_manager>>

\* positions of the stored events with this id
Positions(stored, last_event_id) ==
    {i \in 1..Len(stored) : stored[i].event_id = last_event_id}

\* "for i, (_, event_id, _) in enumerate(self._events)": the index after the
\* event, or the beginning when the id is not found
start_index(stored, last_event_id) ==
    IF Positions(stored, last_event_id) # {}
    THEN (CHOOSE i \in Positions(stored, last_event_id) :
            \A j \in Positions(stored, last_event_id) : i <= j) + 1
    ELSE 1

\* "for _, event_id, message in self._events[start_index:]": the sends
replayed(stored, last_event_id) ==
    SubSeq(stored, start_index(stored, last_event_id), Len(stored))

\* "stream_id = None" as a value of the type of the stream ids
NoStreamId == "None"

\* the stream id replay_events_after returns: that of the first replayed event
returned_stream_id(stored, last_event_id) ==
    IF replayed(stored, last_event_id) = <<>>
    THEN NoStreamId
    ELSE stored[start_index(stored, last_event_id)].stream_id

\* replay_events_after(last_event_id, send_callback); the slice is taken when
\* the loop starts, so events stored during the sends are not part of it
ReplayEventsAfter(last_event_id) ==
    /\ replay' = [last_event_id |-> last_event_id,
                  stored |-> Len(events),
                  sent |-> replayed(events, last_event_id),
                  stream_id |-> returned_stream_id(events, last_event_id)]
    /\ UNCHANGED <<events, event_id_counter, manager_vars, outside_manager>>

ManagerInit ==
    /\ SessionIdle
    /\ CapsIdle
    /\ HttpIdle
    /\ ReaderIdle
    /\ DispatchIdle
    /\ StdioIdle
    /\ ManagerIdle

ManagerNext ==
    \/ \E caller \in Callers : Run(caller)
    \/ \E caller \in Callers : RunExit(caller)
    \/ \E stream_id \in StreamIds : StoreEvent(stream_id)
    \/ \E last_event_id \in LastEventIds : ReplayEventsAfter(last_event_id)

ManagerSpec == ManagerInit /\ [][ManagerNext]_vars

\* ------------------------------------------------- MessageDispatch
\* publish_message calls
MaxPublishes == 2

Dispatches == {"memory", "redis"}

\* the state outside the message dispatch
outside_dispatch == <<session_core, caps_vars, http_vars, reader_vars, manager_vars,
                      store_vars, stdio_vars>>

\* the callback the SSE connection of a subscribe() context hands over
Callback(context) == [callback_of |-> context]

\* the session a subscribe() context was entered for
SessionOf(context) == subscribe_pc[context].session_id

\* where the subscription of a session stands: inside a context, before or
\* after all of them, or between
SessionAt(session) ==
    LET ats == {subscribe_pc[c].at : c \in {x \in Contexts : SessionOf(x) = session}} IN
    IF ats = {} THEN "none"
    ELSE IF "body" \in ats THEN "body"
    ELSE IF Cardinality(ats) = 1 THEN CHOOSE at \in ats : TRUE
    ELSE "changing"

\* _session_channel(session_id)
session_channel(session) == [prefix |-> "mcp:pubsub:session:", hex |-> session]

\* mutant: every channel is taken for the channel of one session
extract_session_id_Fixed(channel) == "a"

\* _extract_session_id(channel)
extract_session_id(channel) ==
    IF channel.prefix = "mcp:pubsub:session:" THEN channel.hex ELSE "None"

\* mutant: no session is reported as existing
session_exists_Never(session) == FALSE

\* session_exists(session_id): membership in _callbacks, or the session_active
\* key in Redis (the heartbeat refreshes the key's TTL at half its length;
\* the expiry of a key is not part of the model)
session_exists(session) ==
    IF dispatch = "memory"
    THEN session \in DOMAIN session_state
    ELSE session \in session_keys

\* mutant: the clean-up of subscribe() is not shielded
cleanup_runs_Unshielded(cancelled) == ~cancelled

\* "finally:" of subscribe(): synchronous in memory, under
\* CancelScope(shield=True) with Redis; it runs to its end when the context
\* is left by cancellation, too
cleanup_runs(cancelled) == TRUE

\* CapacityLimiter(1)
total_tokens == 1

\* mutant: the limiter admits every borrower
limiter_admits_Always(borrowers) == TRUE

\* "async with self._limiter": a token is free
limiter_admits(borrowers) == Cardinality(borrowers) < total_tokens

\* mutant: a cancelled listener keeps its token
limiter_release_Kept(borrowers, context) == borrowers

\* the end of "async with self._limiter" when the listener task is cancelled
limiter_release(borrowers, context) == borrowers \ {context}

\* mutant: cancelling the task group leaves a blocked callback blocked
cancel_scope_cancel_Spares(tasks, tg) == tasks

\* "tg.cancel_scope.cancel()": the tasks of the group that wait in their
\* callback get the cancellation
cancel_scope_cancel(tasks, tg) ==
    {IF t.tg = tg /\ t.at = "callback" THEN [t EXCEPT !.at = "cancelled"] ELSE t :
        t \in tasks}

\* the tasks of an ending task group that never ran find no session state
\* ("Message dropped: callback removed")
tasks_after_exit(tasks, tg) ==
    {IF t.tg = tg /\ t.at = "scheduled" THEN [t EXCEPT !.at = "dropped"] ELSE t :
        t \in tasks}

At(context, at) == [subscribe_pc EXCEPT ![context].at = at]
Without(state, session) == [x \in DOMAIN state \ {session} |-> state[x]]

\* "self._callbacks[session_id] = callback",
\* "self._session_state[session_id] = (callback, tg)"
SetSessionState(state, session, callback, tg) ==
    [x \in DOMAIN state \cup {session} |->
        IF x = session THEN [callback |-> callback, tg |-> tg] ELSE state[x]]

\* subscribe() up to its first await: the callback is registered (memory), or
\* the session_active key is set (Redis)
Subscribe(context) ==
    /\ subscribe_pc[context].at = "none"
    /\ IF dispatch = "memory"
       THEN /\ session_state' = SetSessionState(session_state, SessionOf(context),
                                                Callback(context), "None")
            /\ subscribe_pc' = At(context, "body")
            /\ UNCHANGED session_keys
       ELSE /\ session_keys' = session_keys \cup {SessionOf(context)}
            /\ subscribe_pc' = At(context, "key_set")
            /\ UNCHANGED session_state
    /\ UNCHANGED <<dispatch, channels, pubsub_queue, listeners, limiter, handle_tasks,
                   callback_log, publish_log, outside_dispatch>>

\* Redis: the pubsub has subscribed to the channel, the session state is
\* stored, the listener and heartbeat tasks are started, the body begins
SubscribeEnter(context) ==
    /\ subscribe_pc[context].at = "key_set"
    /\ channels' = channels \cup {SessionOf(context)}
    /\ session_state' = SetSessionState(session_state, SessionOf(context),
                                        Callback(context), context)
    /\ listeners' = listeners \cup {context}
    /\ subscribe_pc' = At(context, "body")
    /\ UNCHANGED <<dispatch, session_keys, pubsub_queue, limiter, handle_tasks,
                   callback_log, publish_log, outside_dispatch>>

\* the body of the context ends, normally or by cancellation. In memory the
\* entry is deleted at once, if it is there. With Redis the task group is
\* cancelled: the context's listener stops at its next checkpoint and gives
\* up the limiter, a callback a task of the group waits in is cancelled
SubscribeLeave(context, cancelled) ==
    /\ subscribe_pc[context].at = "body"
    /\ IF dispatch = "memory"
       THEN /\ session_state' = Without(session_state, SessionOf(context))
            /\ subscribe_pc' = [subscribe_pc EXCEPT
                                    ![context].at = "exited",
                                    ![context].cancelled = cancelled]
            /\ UNCHANGED <<listeners, limiter, handle_tasks>>
       ELSE /\ listeners' = listeners \ {context}
            /\ limiter' = limiter_release(limiter, context)
            /\ handle_tasks' = cancel_scope_cancel(handle_tasks, context)
            /\ subscribe_pc' = [subscribe_pc EXCEPT
                                    ![context].at = IF cleanup_runs(cancelled)
                                                    THEN "leaving"
                                                    ELSE "exited",
                                    ![context].cancelled = cancelled]
            /\ UNCHANGED session_state
    /\ UNCHANGED <<dispatch, session_keys, channels, pubsub_queue, callback_log,
                   publish_log, outside_dispatch>>

\* "await self._pubsub.unsubscribe(channel)"
Unsubscribe(context) ==
    /\ subscribe_pc[context].at = "leaving"
    /\ channels' = channels \ {SessionOf(context)}
    /\ subscribe_pc' = At(context, "unsubscribed")
    /\ UNCHANGED <<dispatch, session_state, session_keys, pubsub_queue, listeners,
                   limiter, handle_tasks, callback_log, publish_log,
                   outside_dispatch>>

\* "await self._redis.delete(session_key)"
DeleteKey(context) ==
    /\ subscribe_pc[context].at = "unsubscribed"
    /\ session_keys' = session_keys \ {SessionOf(context)}
    /\ subscribe_pc' = At(context, "key_deleted")
    /\ UNCHANGED <<dispatch, session_state, channels, pubsub_queue, listeners,
                   limiter, handle_tasks, callback_log, publish_log,
                   outside_dispatch>>

\* "del self._session_state[session_id]", a KeyError when the entry is gone,
\* and the end of the task group: its tasks that had not run find no state
\* and drop their message
SubscribeExited(context) ==
    /\ subscribe_pc[context].at = "key_deleted"
    /\ session_state' = Without(session_state, SessionOf(context))
    /\ handle_tasks' = tasks_after_exit(handle_tasks, context)
    /\ subscribe_pc' = [subscribe_pc EXCEPT
                            ![context].at = "exited",
                            ![context].raised =
                                SessionOf(context) \notin DOMAIN session_state]
    /\ UNCHANGED <<dispatch, session_keys, channels, pubsub_queue, listeners,
                   limiter, callback_log, publish_log, outside_dispatch>>

\* the callbacks invoked with a message so far
Invocations(data) == IF data \in DOMAIN callback_log THEN callback_log[data] ELSE <<>>
Invoke(callback, data) ==
    [x \in DOMAIN callback_log \cup {data} |->
        IF x = data THEN Append(Invocations(data), callback) ELSE callback_log[x]]

\* publish_message(session_id, message): in memory the callback is awaited
\* before True is returned; Redis hands the message to the connections
\* subscribed to the channel
PublishMessage(session) ==
    LET data == Cardinality(DOMAIN publish_log) + 1
        exists == session_exists(session)
    IN
    /\ data <= MaxPublishes
    /\ publish_log' = publish_log @@
            (data :> [session_id |-> session,
                      returned |-> exists,
                      at |-> SessionAt(session),
                      subscribed |-> {x \in DispatchSessions :
                                        SessionAt(x) = "body"},
                      exited |-> {x \in DispatchSessions :
                                        SessionAt(x) = "exited"}])
    /\ IF ~exists
       THEN UNCHANGED <<callback_log, pubsub_queue>>
       ELSE IF dispatch = "memory"
            THEN /\ callback_log' = Invoke(session_state[session].callback, data)
                 /\ UNCHANGED pubsub_queue
            ELSE /\ pubsub_queue' =
                        IF session \in channels
                        THEN Append(pubsub_queue,
                                    [channel |-> session_channel(session),
                                     data |-> data])
                        ELSE pubsub_queue
                 /\ UNCHANGED callback_log
    /\ UNCHANGED <<dispatch, subscribe_pc, session_state, session_keys, channels,
                   listeners, limiter, handle_tasks, outside_dispatch>>

\* "async with self._limiter": a waiting listener task becomes a poller
ListenerAcquire(context) ==
    /\ context \in listeners \ limiter
    /\ limiter_admits(limiter)
    /\ limiter' = limiter \cup {context}
    /\ UNCHANGED <<dispatch, subscribe_pc, session_state, session_keys, channels,
                   pubsub_queue, listeners, handle_tasks, callback_log, publish_log,
                   outside_dispatch>>

\* one shielded pass of the _listen_for_messages task that holds the token
\* and got a message: a task for it is started in the task group stored for
\* its session
ListenerPoll(context) ==
    /\ context \in limiter \cap listeners
    /\ pubsub_queue # <<>>
    /\ pubsub_queue' = Tail(pubsub_queue)
    /\ LET session == extract_session_id(Head(pubsub_queue).channel) IN
        handle_tasks' =
            IF session \in DOMAIN session_state
            THEN handle_tasks \cup {[session_id |-> session,
                                     data |-> Head(pubsub_queue).data,
                                     tg |-> session_state[session].tg,
                                     by |-> context,
                                     at |-> "scheduled"]}
            ELSE handle_tasks
    /\ UNCHANGED <<dispatch, subscribe_pc, session_state, session_keys, channels,
                   listeners, limiter, callback_log, publish_log, outside_dispatch>>

\* _handle_message(session_id, data) in the session's task group, up to the
\* first await of the callback; in a task group already cancelled that is
\* where the task ends
HandleMessage(task) ==
    /\ task \in handle_tasks
    /\ task.at = "scheduled"
    /\ IF task.session_id \in DOMAIN session_state
       THEN /\ callback_log' = Invoke(session_state[task.session_id].callback,
                                      task.data)
            /\ handle_tasks' = (handle_tasks \ {task}) \cup
                    {[task EXCEPT !.at = IF subscribe_pc[task.tg].at = "body"
                                         THEN "callback"
                                         ELSE "cancelled_on_entry"]}
       ELSE /\ handle_tasks' = (handle_tasks \ {task}) \cup
                    {[task EXCEPT !.at = "dropped"]}
            /\ UNCHANGED callback_log
    /\ UNCHANGED <<dispatch, subscribe_pc, session_state, session_keys, channels,
                   pubsub_queue, listeners, limiter, publish_log, outside_dispatch>>

\* the callback returns
HandleReturn(task) ==
    /\ task \in handle_tasks
    /\ task.at = "callback"
    /\ handle_tasks' = (handle_tasks \ {task}) \cup {[task EXCEPT !.at = "returned"]}
    /\ UNCHANGED <<dispatch, subscribe_pc, session_state, session_keys, channels,
                   pubsub_queue, listeners, limiter, callback_log, publish_log,
                   outside_dispatch>>

\* a dispatch of either kind whose contexts are for the sessions given
DispatchStart(session_of) ==
    /\ SessionIdle
    /\ CapsIdle
    /\ HttpIdle
    /\ ReaderIdle
    /\ ManagerIdle
    /\ StdioIdle
    /\ dispatch \in Dispatches
    /\ subscribe_pc = NotEntered(session_of)
    /\ session_state = <<>>
    /\ session_keys = {}
    /\ channels = {}
    /\ pubsub_queue = <<>>
    /\ listeners = {}
    /\ limiter = {}
    /\ handle_tasks = {}
    /\ callback_log = <<>>
    /\ publish_log = <<>>

DispatchInit == DispatchStart(OwnSessions)

DispatchNext ==
    \/ \E context \in Contexts : Subscribe(context)
    \/ \E context \in Contexts : SubscribeEnter(context)
    \/ \E context \in Contexts, cancelled \in BOOLEAN :
            SubscribeLeave(context, cancelled)
    \/ \E context \in Contexts : Unsubscribe(context)
    \/ \E context \in Contexts : DeleteKey(context)
    \/ \E context \in Contexts : SubscribeExited(context)
    \/ \E session \in DispatchSessions : PublishMessage(session)
    \/ \E context \in Contexts : ListenerAcquire(context)
    \/ \E context \in Contexts : ListenerPoll(context)
    \/ \E task \in handle_tasks : HandleMessage(task)
    \/ \E task \in handle_tasks : HandleReturn(task)

DispatchSpec == DispatchInit /\ [][DispatchNext]_vars

\* the event loop runs every task that is ready: a listener waiting for a free
\* token gets it, the polling listener takes the next message, a started
\* _handle_message task reaches its callback. Nothing makes a callback return
\* or a context end
DispatchFairness ==
    /\ WF_vars(\E context \in Contexts : ListenerAcquire(context))
    /\ WF_vars(\E context \in Contexts : ListenerPoll(context))
    /\ WF_vars(\E task \in handle_tasks : HandleMessage(task))

DispatchLiveSpec == DispatchSpec /\ DispatchFairness

\* both subscribe() contexts are entered for the same session id
OverlapInit == DispatchStart(SameSession)

OverlapSpec == OverlapInit /\ [][DispatchNext]_vars

\* ------------------------------------------------- stdio_client.stdout_reader
\* characters the server process writes to its stdout
MaxOutput == 4

NewLine == "\n"
Characters == {"{", "}", NewLine}

\* the state outside stdout_reader
outside_stdio == <<session_core, caps_vars, http_vars, reader_vars, manager_vars,
                   store_vars, dispatch_vars>>

\* the texts of at most n characters, as sequences of characters
Texts(n) == UNION {[1..k -> Characters] : k \in 0..n}

\* the text cut after the positions in cuts, from position `from` on: the
\* chunks TextReceiveStream yields for it, none of them empty
RECURSIVE Pieces(_, _, _)
Pieces(text, cuts, from) ==
    IF from > Len(text)
    THEN <<>>
    ELSE LET ends == {c \in cuts \cup {Len(text)} : c >= from /\ c <= Len(text)}
             to == CHOOSE c \in ends : \A d \in ends : c <= d
         IN  <<SubSeq(text, from, to)>> \o Pieces(text, cuts, to + 1)

\* the chunks put together again
RECURSIVE Joined(_)
Joined(pieces) == IF pieces = <<>> THEN <<>> ELSE Head(pieces) \o Joined(Tail(pieces))

\* text.split("\n")
RECURSIVE split(_)
split(text) ==
    IF text = <<>>
    THEN << <<>> >>
    ELSE LET rest == split(Tail(text)) IN
         IF Head(text) = NewLine
         THEN << <<>> >> \o rest
         ELSE << <<Head(text)>> \o Head(rest) >> \o Tail(rest)

\* lines.pop() gives the last element and leaves the others
pop(list) == list[Len(list)]
popped(list) == SubSeq(list, 1, Len(list) - 1)

\* mutant: the text after the last newline of a chunk is dropped
next_buffer_Dropped(list) == <<>>

\* "buffer = lines.pop()"
next_buffer(list) == pop(list)

\* the one line of these characters that holds a JSON-RPC message
JsonRpcLine == <<"{", "}">>

\* what stdout_reader sends for a line: the message, or the exception of
\* JSONRPCMessage.model_validate_json(line)
LineItem(line) ==
    [line |-> line,
     item |-> model_validate_json(IF line = JsonRpcLine THEN "message" ELSE "not_json")]

\* "async for chunk in TextReceiveStream(process.stdout)": the next chunk is
\* appended to the buffer and split
StdoutChunk ==
    /\ stdout_pc = "read"
    /\ chunks_read < Len(chunks)
    /\ chunks_read' = chunks_read + 1
    /\ LET list == split(buffer \o chunks[chunks_read + 1]) IN
        /\ buffer' = next_buffer(list)
        /\ lines' = popped(list)
        /\ stdout_pc' = IF popped(list) = <<>> THEN "read" ELSE "send"
    /\ UNCHANGED <<chunks, stdout_inbound, outside_stdio>>

\* "for line in lines": the send of one line's item returns
StdoutSend ==
    /\ stdout_pc = "send"
    /\ stdout_inbound' = Append(stdout_inbound, LineItem(Head(lines)))
    /\ lines' = Tail(lines)
    /\ stdout_pc' = IF Tail(lines) = <<>> THEN "read" ELSE "send"
    /\ UNCHANGED <<chunks, chunks_read, buffer, outside_stdio>>

\* the process closes its stdout: the loop ends, the read stream is closed
StdoutEnd ==
    /\ stdout_pc = "read"
    /\ chunks_read = Len(chunks)
    /\ stdout_pc' = "closed"
    /\ UNCHANGED <<chunks, chunks_read, buffer, lines, stdout_inbound, outside_stdio>>

\* a server output of at most MaxOutput characters, cut into chunks in one of
\* all the ways there are
StdioInit ==
    /\ SessionIdle
    /\ CapsIdle
    /\ HttpIdle
    /\ ReaderIdle
    /\ ManagerIdle
    /\ DispatchIdle
    /\ chunks \in {Pieces(text, cuts, 1) :
                        text \in Texts(MaxOutput), cuts \in SUBSET (1..(MaxOutput - 1))}
    /\ chunks_read = 0
    /\ buffer = <<>>
    /\ lines = <<>>
    /\ stdout_pc = "read"
    /\ stdout_inbound = <<>>

StdioNext ==
    \/ StdoutChunk
    \/ StdoutSend
    \/ StdoutEnd

StdioSpec == StdioInit /\ [][StdioNext]_vars

\* ================================================================= claims

\* C1: for every request id the server puts at most one response or error on
\* the wire and at most one is handed to the waiting caller, whatever the
\* order of handler completion, handler exception, cancellation and timeout.
C1_AtMostOneResponse ==
    /\ \A id \in DOMAIN sent : Len(sent[id]) <= 1
    /\ \A id \in DOMAIN delivered : delivered[id] <= 1

\* a request was cancelled while its handler ran, the handler has since
\* finished and called respond, and still one answer was sent
C1_Witness ==
    \E id \in DOMAIN responders :
        /\ responders[id].cancelled
        /\ id \in invoked
        /\ session_open
        /\ run_pc = "recv"
        /\ Len(sent[id]) = 1

\* C2: every response or error on the wire carries the id of a request the
\* session took up, unchanged in value and in type, and answers that request
\* (an error, or the result of that request's method).
Answers(method, response) == response.error \/ response.message = method

C2_ResponseCarriesRequestId ==
    \A id \in DOMAIN sent :
        /\ id \in DOMAIN responders
        /\ id \in DOMAIN calls
        /\ \A i \in 1..Len(sent[id]) :
                /\ sent[id][i].id = id
                /\ Answers(responders[id].method, sent[id][i].response)

\* two requests with string ids of different methods have been answered, one
\* of them with a result
C2_Witness ==
    \E a, b \in DOMAIN sent :
        /\ a # b
        /\ a.k = "str"
        /\ responders[a].method # responders[b].method
        /\ ~sent[a][1].response.error

\* C3: the in-flight table holds exactly the requests that were taken up and
\* are not settled, so it is empty once every request has settled.
C3_InFlightIffUnsettled ==
    /\ in_flight \subseteq DOMAIN responders
    /\ \A id \in DOMAIN responders : (id \in in_flight) <=> ~responders[id].completed

\* requests settled by a response, by an error and by a cancellation, and the
\* table is empty again
C3_Witness ==
    /\ in_flight = {}
    /\ \E a, b \in DOMAIN responders :
        /\ responders[a].cancelled
        /\ ~responders[b].cancelled
        /\ responders[b].completed
        /\ sent[b][1].response.error

\* C4: no head-of-line blocking: a request the session has handed to the
\* dispatch can have its handler started at once, also while the handler of an
\* earlier request is still running.
DispatchWaiting ==
    /\ session_open
    /\ incoming_messages # <<>>
    /\ Head(incoming_messages).kind = "responder"

C4_NoHeadOfLineBlocking == DispatchWaiting => ENABLED RunReceive

\* C5: once notifications/cancelled has taken effect on a request whose
\* handler was running, that handler is no longer running, and what the
\* requester's send_request receives for the id is the error "Request cancelled".
C5_CancelStopsHandler ==
    \A id \in DOMAIN responders :
        responders[id].cancelled =>
            /\ ~(run_pc = "handler" /\ message = id)
            /\ calls[id].state \in {"result", "error"} =>
                    calls[id] = Outcome("error", 0, "Request cancelled")

\* C6: a send_request whose outbound send raises leaves as many response
\* slots behind as there were before the call.
C6_SendFailureLeavesNoSlot ==
    [][(\E id \in DOMAIN calls' \ DOMAIN calls : calls'[id].state = "send_failed")
            => Cardinality(response_streams') = Cardinality(response_streams)]_vars

\* a send has failed while another request holds its slot
C6_Witness ==
    /\ response_streams # {}
    /\ \E id \in DOMAIN calls : calls[id].state = "send_failed"

\* C7: the step in which a send_request times out appends
\* notifications/cancelled with that request's id to the outbound sink, removes
\* the response slot and fails the caller with the timeout error.
C7_TimeoutCancelsAndCleans ==
    [][\A id \in DOMAIN calls :
            (calls[id] = Pending /\ calls'[id].state = "timed_out") =>
                /\ c2s' = Append(c2s, CancelledNotification(id))
                /\ id \in response_streams
                /\ id \notin response_streams'
                /\ calls'[id].message = "request timed out"]_vars

\* a request has timed out and its cancellation is on the wire
C7_Witness ==
    \E id \in DOMAIN calls :
        /\ calls[id].state = "timed_out"
        /\ c2s = <<CancelledNotification(id)>>

\* C8: a timeout does not break the session: when the handler of a request
\* that timed out finishes (exceptions are not re-raised), Server.run goes on
\* to await the next message and the session stays open.
C8_TimeoutKeepsSession ==
    [][(/\ run_pc = "handler"
        /\ run_pc' # "handler"
        /\ c2s' = c2s
        /\ ~raise_exceptions
        /\ calls[message].state = "timed_out")
            => (session_open' /\ run_pc' = "recv")]_vars

\* the inbound loop takes a request off the wire
TakesRequest ==
    /\ session_open
    /\ incoming_messages = <<>>
    /\ c2s # <<>>
    /\ Head(c2s).type = "request"
    /\ c2s' = Tail(c2s)

\* C9: a request other than initialize or ping taken up while the session is
\* not Initialized is answered with an error, its handler is not invoked and
\* the session keeps running.
C9_GateAnswersWithError ==
    [][(/\ TakesRequest
        /\ Head(c2s).method \notin {"initialize", "ping"}
        /\ initialization_state # "Initialized")
            => /\ session_open'
               /\ Head(c2s).id \notin invoked'
               /\ Len(s2c') = Len(s2c) + 1
               /\ s2c'[Len(s2c')].id = Head(c2s).id
               /\ s2c'[Len(s2c')].response.error]_vars

\* C10: a ping taken up while the session is NotInitialized or Initializing
\* passes the gate: the session stays open and the request goes to the
\* dispatch, where the ping handler answers it.
C10_PingPassesGate ==
    [][(/\ TakesRequest
        /\ Head(c2s).method = "ping"
        /\ initialization_state # "Initialized")
            => /\ session_open'
               /\ incoming_messages' # <<>>
               /\ Head(incoming_messages').id = Head(c2s).id]_vars

C13_UnknownMethodNotFound ==
    /\ \A id \in invoked : responders[id].method \in request_handlers
    /\ \A id \in DOMAIN responders :
            (/\ responders[id].method \notin request_handlers \cup {"initialize"}
             /\ responders[id].completed)
                => /\ Len(sent[id]) = 1
                   /\ sent[id][1].response.error
                   /\ sent[id][1].response.code = -32601

\* an unregistered method has been answered
C13_Witness ==
    \E id \in DOMAIN responders :
        /\ responders[id].method = "resources/list"
        /\ id \notin invoked
        /\ id \in DOMAIN sent
        /\ sent[id] = <<JSONRPCResponse(id, ErrorData(METHOD_NOT_FOUND, "Method not found"))>>

\* C14: whatever was registered, a get_capabilities call reports prompts,
\* resources, tools and logging as present exactly when the prompts/list,
\* resources/list, tools/list and logging/setLevel handler is registered, and
\* each listChanged equals the notification option of its capability.
C14_CapabilitiesFollowHandlers ==
    [][GetCapabilities =>
        /\ (capabilities'.prompts # None) <=> ("prompts/list" \in registered)
        /\ (capabilities'.resources # None) <=> ("resources/list" \in registered)
        /\ (capabilities'.tools # None) <=> ("tools/list" \in registered)
        /\ (capabilities'.logging # None) <=> ("logging/setLevel" \in registered)
        /\ "prompts/list" \in registered =>
                capabilities'.prompts.listChanged = notification_options.prompts_changed
        /\ "resources/list" \in registered =>
                capabilities'.resources.listChanged =
                    notification_options.resources_changed
        /\ "tools/list" \in registered =>
                capabilities'.tools.listChanged = notification_options.tools_changed]_vars

\* prompts and resources handlers were added one after the other, the options
\* differ between the capabilities, and the call reported both
C14_Witness ==
    /\ registered = {"ping", "prompts/list", "resources/list"}
    /\ notification_options.tools_changed
    /\ ~notification_options.prompts_changed
    /\ capabilities.prompts = [listChanged |-> FALSE]
    /\ capabilities.resources =
            [subscribe |-> FALSE, listChanged |-> notification_options.resources_changed]
    /\ capabilities.tools = None

\* the notification that ends the handshake is waiting on the outbound stream
InitializedQueued(stream) ==
    \E i \in 1..Len(stream) : stream[i].msg = InitializedNotification

\* C11: ClientSession.initialize puts notifications/initialized on its
\* outbound stream only once it holds an initialize result whose
\* protocolVersion is supported; with an unsupported version (or an error) it
\* fails, stays failed and never sends the notification.
C11_InitializedAfterVersionCheck ==
    [][/\ (~InitializedQueued(write_stream) /\ InitializedQueued(write_stream'))
            => /\ InitializeId \in DOMAIN results
               /\ ~results[InitializeId].error
               /\ results[InitializeId].protocolVersion \in SUPPORTED_PROTOCOL_VERSIONS
       /\ (/\ InitializeId \in DOMAIN results
           /\ ~results[InitializeId].error
           /\ results[InitializeId].protocolVersion \notin SUPPORTED_PROTOCOL_VERSIONS)
            => /\ ~InitializedQueued(write_stream')
               /\ get_pc' = "not_started"
               /\ client_pc' \in {"got_initialize", "failed", "closed", "end_of_stream"}]_vars

\* the server answered with the supported version and the notification has
\* been taken by the transport
C11_Witness ==
    /\ InitializeId \in DOMAIN results
    /\ ~results[InitializeId].error
    /\ results[InitializeId].protocolVersion = LATEST_PROTOCOL_VERSION
    /\ client_pc = "initialized"
    /\ get_pc = "started"
    /\ write_stream = <<>>

\* C15: once the session has been terminated by a DELETE, every later HTTP
\* request with its session id (POST, GET or another DELETE) is answered 404
\* and the session stays terminated.
C15_TerminatedAnswers404 ==
    [][(http_session = "terminated" /\ http_response'.n # http_response.n)
            => /\ http_response'.status = 404
               /\ http_session' = "terminated"]_vars

\* a second DELETE has been refused
C15_Witness ==
    /\ http_session = "terminated"
    /\ http_response.verb = "DELETE"
    /\ http_response.status = 404

\* C16: a GET that arrives while the session has a standalone stream is
\* answered 409 and the stream stays with its holder.
C16_SecondGetConflict ==
    [][(/\ standalone_stream # "none"
        /\ http_response'.n # http_response.n
        /\ http_response'.verb = "GET")
            => /\ http_response'.status = 409
               /\ standalone_stream' = standalone_stream]_vars

\* the SDK client holds the standalone stream and a further GET got 409
C16_Witness ==
    /\ standalone_stream = "client"
    /\ get_pc = "open"
    /\ http_response.verb = "GET"
    /\ http_response.status = 409

\* C17: a message emitted with related_request_id is put on the stream of
\* that request if the stream is open and is dropped otherwise; it never goes
\* to the standalone stream or to another request's stream.
C17_RelatedGoesToItsStream ==
    [][\A r \in routed' \ routed :
        r.related # NoId =>
            r.on = IF r.related \in request_streams
                   THEN Stream("request", r.related)
                   ELSE Dropped]_vars

\* with a standalone stream open, one notification went to its request's
\* stream and one, naming a request already answered, was dropped
C17_Witness ==
    /\ standalone_stream # "none"
    /\ CallId(1) \in DOMAIN results
    /\ \E a, b \in routed :
        /\ a.on.kind = "request"
        /\ b.related = CallId(1)
        /\ b.on = Dropped

\* C18: with nobody else using the session, when a tool call has returned to
\* the client, a notification without related request id that its handler
\* emitted has reached the client's message handler.
C18_StandaloneNotificationArrives ==
    (/\ raw_requests = 0
     /\ client_pc = "called"
     /\ \E r \in routed : r.related = NoId)
        => ResourceUpdatedNotification \in notifications_received

\* C19: when the sampling callback has produced its reply while the tools/call
\* is pending, post_writer can post that reply.
C19_SamplingReplyPosted ==
    (/\ sampling_callback_invoked
     /\ client_pc = "await_call"
     /\ http_session = "open"
     /\ Sending(write_stream, "loop"))
        => ENABLED PostWriterPost

\* C20: when the POST of a request is answered 404, post_writer sends to the
\* inbound stream an error with that request's id and the message
\* "Session terminated", and goes on with the outbound stream.
C20_NotFoundSynthesizesError ==
    [][(/\ write_stream # <<>>
        /\ write_stream' = Tail(write_stream)
        /\ IsRequest(Head(write_stream).msg)
        /\ http_response'.n # http_response.n
        /\ http_response'.status = 404)
            => /\ Len(read_stream') = Len(read_stream) + 1
               /\ LET e == read_stream'[Len(read_stream')].msg IN
                    /\ IsResponse(e)
                    /\ e.id = Head(write_stream).msg.id
                    /\ e.response.error
                    /\ e.response.message = "Session terminated"
               /\ post_pc' = "idle"]_vars

\* a call failed with "Session terminated" and so did the call made after it
C20_Witness ==
    /\ CallId(1) \in DOMAIN results
    /\ results[CallId(1)].message = "Session terminated"
    /\ CallId(2) \in DOMAIN results
    /\ results[CallId(2)].message = "Session terminated"
    /\ post_pc = "idle"

\* C21: the Streamable HTTP client adopts the session id returned in the
\* Mcp-Session-Id header of the initialize response, and every POST, GET and
\* DELETE it issues after that carries that same id in its Mcp-Session-Id
\* header.
C21_SessionIdEchoed ==
    [][/\ (http_session = "none" /\ http_session' # "none")
            => session_id' = mcp_session_id
       /\ (/\ http_session # "none"
           /\ http_response'.n # http_response.n
           /\ http_response'.by = "client")
            => /\ http_response'.header = mcp_session_id
               /\ session_id' = mcp_session_id]_vars

\* after the handshake the client has opened its GET stream, made a tool call
\* and sent the DELETE, each with the id the server assigned
C21_Witness ==
    /\ mcp_session_id = "S2"
    /\ http_response.by = "client"
    /\ http_response.verb = "DELETE"
    /\ http_response.header = "S2"
    /\ standalone_stream = "client"
    /\ CallsDone >= 1
\* C22: client-initiated termination treats a DELETE answered with 204 like
\* one answered with 200: terminate_session() takes both as a successful
\* termination and reports neither as a termination failure.
C22_NoContentIsSuccess ==
    (/\ http_response.by = "client"
     /\ http_response.verb = "DELETE"
     /\ http_response.status \in {200, 204})
        => termination = "terminated"
\* the frames the reader has taken that are SSE events of another type
Unrelated(i) == frames[i] = "other_event"

\* the items the read stream has yielded or is about to yield
Yielded == IF reader_pc = "send" THEN Append(inbound, reader_item) ELSE inbound

Admitted == {c \in Callers : run_calls[c] \in {"running", "finished"}}

\* C24: StreamableHTTPSessionManager.run() is entered at most once per
\* instance: a call after the first has finished raises RuntimeError, and of
\* two concurrent calls exactly one succeeds and the other raises RuntimeError.
C24_RunEnteredOnce ==
    /\ Cardinality(Admitted) <= 1
    /\ has_started <=> Admitted # {}
    /\ \A c \in Callers : run_calls[c] = "raised" => Admitted \ {c} # {}
    /\ (\A c \in Callers : run_calls[c] # "idle") => Cardinality(Admitted) = 1

\* the second caller called run() while the first was inside it, and raised
C24_Witness ==
    /\ run_calls["first"] = "running"
    /\ run_calls["second"] = "raised"

\* the store as it was when the latest replay ran, and the event replayed from
StoreAtReplay == SubSeq(events, 1, replay.stored)
ReplayKnown == replay # None /\ Positions(StoreAtReplay, replay.last_event_id) # {}
ReplayPosition == CHOOSE i \in Positions(StoreAtReplay, replay.last_event_id) : TRUE
ReplayedFrom == StoreAtReplay[ReplayPosition]

\* the events stored after position n on one stream, in order
RECURSIVE LaterOnStream(_, _, _)
LaterOnStream(stored, n, stream_id) ==
    IF n >= Len(stored)
    THEN <<>>
    ELSE (IF stored[n + 1].stream_id = stream_id THEN <<stored[n + 1]>> ELSE <<>>)
            \o LaterOnStream(stored, n + 1, stream_id)

\* C25: replay_events_after(e, send) calls send, in the order they were
\* stored, for exactly the events stored after e on the stream e belongs to;
\* events stored on other streams are not replayed.
C25_ReplaysOwnStreamOnly ==
    ReplayKnown =>
        replay.sent = LaterOnStream(StoreAtReplay, ReplayPosition,
                                    ReplayedFrom.stream_id)

\* C26: replay_events_after called with an event id that was never stored
\* replays no event and returns none.
C26_UnknownIdReplaysNothing ==
    (replay # None /\ ~ReplayKnown) =>
        /\ replay.sent = <<>>
        /\ replay.stream_id = NoStreamId

\* C27: replay_events_after called with a stored event id e returns the
\* stream id of the stream e was stored on, whether or not any event follows
\* e on that stream.
C27_ReturnsStreamOfEvent ==
    ReplayKnown => replay.stream_id = ReplayedFrom.stream_id
\* C28: for both message dispatch implementations session_exists(s) is true
\* throughout a subscribe(s, callback) context and false once that context
\* has been left, normally or by cancellation, and the per-session state
\* entry of s is gone after the exit.
C28_ExistsWhileSubscribed ==
    \A s \in DispatchSessions :
        /\ SessionAt(s) = "body"
            => session_exists(s) /\ s \in DOMAIN session_state
        /\ SessionAt(s) = "exited"
            => ~session_exists(s) /\ s \notin DOMAIN session_state

\* with Redis one session has left its context by cancellation and is cleaned
\* up, while the other one is still subscribed
C28_Witness ==
    /\ dispatch = "redis"
    /\ subscribe_pc["c1"].at = "exited"
    /\ subscribe_pc["c1"].cancelled
    /\ subscribe_pc["c2"].at = "body"
    /\ session_keys = {"b"}
    /\ DOMAIN session_state = {"b"}

InTransit(data) ==
    \/ \E i \in 1..Len(pubsub_queue) : pubsub_queue[i].data = data
    \/ \E t \in handle_tasks : t.data = data /\ t.at = "scheduled"

\* C30: with several sessions subscribed at the same time, a message
\* published for session s is delivered exactly once to the callback
\* registered for s and never to the callback of another session: no message
\* reaches a callback twice or a callback of another session, and a message
\* published while all sessions were subscribed has reached the callback of
\* its session once it is no longer on its way, as long as s is subscribed.
C30_DeliveredOnceToOwnCallback ==
    \A data \in DOMAIN publish_log :
        LET s == publish_log[data].session_id IN
        /\ Len(Invocations(data)) <= 1
        /\ \A i \in 1..Len(Invocations(data)) :
                SessionOf(Invocations(data)[i].callback_of) = s
        /\ (/\ publish_log[data].subscribed = DispatchSessions
            /\ SessionAt(s) = "body"
            /\ ~InTransit(data))
                => Len(Invocations(data)) = 1

\* with Redis both sessions are subscribed, one message was published for
\* each, and each callback got its own message
C30_Witness ==
    /\ dispatch = "redis"
    /\ \A s \in DispatchSessions : SessionAt(s) = "body"
    /\ DOMAIN publish_log = {1, 2}
    /\ publish_log[1].session_id = "a"
    /\ publish_log[2].session_id = "b"
    /\ publish_log[1].subscribed = DispatchSessions
    /\ publish_log[2].subscribed = DispatchSessions
    /\ Invocations(1) = <<Callback("c1")>>
    /\ Invocations(2) = <<Callback("c2")>>
\* the subscribe() context c has been left by cancellation and cleaned up
CancelledAndGone(c) ==
    /\ subscribe_pc[c].at = "exited"
    /\ subscribe_pc[c].cancelled

\* C31: with Redis, cancelling the subscription of one session while its
\* callback is blocked cancels that callback and removes that session only:
\* no task of the cancelled context is left waiting in the callback, the
\* session of that context is gone, and every other session that is
\* subscribed still exists, is still listened for, and gets each message
\* published to it after the cancellation exactly once on its own callback.
C31_CancellationIsolated ==
    dispatch = "redis" =>
        \A c \in Contexts :
            /\ subscribe_pc[c].at \notin {"none", "key_set", "body"}
                => \A t \in handle_tasks : t.tg = c => t.at # "callback"
            /\ CancelledAndGone(c) =>
                /\ ~session_exists(SessionOf(c))
                /\ SessionOf(c) \notin DOMAIN session_state
                /\ \A o \in Contexts \ {c} :
                    subscribe_pc[o].at = "body" =>
                        /\ session_exists(SessionOf(o))
                        /\ session_state[SessionOf(o)].callback = Callback(o)
                        /\ SessionOf(o) \in channels
                        /\ o \in listeners
                        /\ \A data \in DOMAIN publish_log :
                            (/\ publish_log[data].session_id = SessionOf(o)
                             /\ publish_log[data].at = "body"
                             /\ SessionOf(c) \in publish_log[data].exited)
                                => /\ publish_log[data].returned
                                   /\ InTransit(data) \/ Invocations(data) = <<Callback(o)>>

\* session a got a message, its callback blocked, its context was cancelled
\* and the callback with it; session b then got the message published to it
C31_Witness ==
    /\ dispatch = "redis"
    /\ CancelledAndGone("c1")
    /\ \E t \in handle_tasks : t.tg = "c1" /\ t.data = 1 /\ t.at = "cancelled"
    /\ subscribe_pc["c2"].at = "body"
    /\ 2 \in DOMAIN publish_log
    /\ publish_log[2].session_id = "b"
    /\ publish_log[2].exited = {"a"}
    /\ Invocations(2) = <<Callback("c2")>>

\* message d was published to a session inside its subscribe() context
PublishedToSubscribed(d) ==
    /\ d \in DOMAIN publish_log
    /\ publish_log[d].at = "body"

\* message d has reached a callback, or its session is subscribed no more
DeliveredOrUnsubscribed(d) ==
    /\ d \in DOMAIN publish_log
    /\ \/ Invocations(d) # <<>>
       \/ SessionAt(publish_log[d].session_id) # "body"

\* C32: every message published to a subscribed session is eventually
\* delivered to a callback as long as the session stays subscribed, also
\* after the context whose listener task was polling has been cancelled: the
\* listener task of a remaining context takes over the polling.
C32_DeliveredAfterHandoff ==
    \A d \in 1..MaxPublishes :
        PublishedToSubscribed(d) ~> DeliveredOrUnsubscribed(d)

\* the listener of c1 polled the first message; c1 was cancelled; the
\* listener of c2 holds the token and polled the second message, which
\* reached the callback of c2
C32_Witness ==
    /\ dispatch = "redis"
    /\ CancelledAndGone("c1")
    /\ \E t \in handle_tasks : t.data = 1 /\ t.by = "c1"
    /\ \E t \in handle_tasks : t.data = 2 /\ t.by = "c2"
    /\ limiter = {"c2"}
    /\ publish_log[2].exited = {"a"}
    /\ Invocations(2) = <<Callback("c2")>>

\* C33: in a RedisMessageDispatch at most one listener task holds the
\* limiter, and so polls the shared pubsub connection, at any time, however
\* many sessions are subscribed; a listener task gets the token only when no
\* other task holds it.
C33_OnePollerAtATime ==
    [][/\ Cardinality(limiter') <= 1
       /\ limiter' \subseteq listeners'
       /\ \A c \in limiter' \ limiter : limiter = {}]_vars

\* both contexts are in their body, the listener of one polls and has handed
\* over a message, the listener of the other waits
C33_Witness ==
    /\ dispatch = "redis"
    /\ listeners = Contexts
    /\ limiter = {"c2"}
    /\ \E t \in handle_tasks : t.by = "c2"

\* C36: when two subscribe() contexts for the same session id overlap, the
\* session stays registered (session_exists true, the pubsub subscribed to
\* its channel) while one of them is in its body, and no context exits by
\* raising.
C36_RegisteredUntilLastExit ==
    \A c \in Contexts :
        /\ subscribe_pc[c].at = "body"
            => /\ session_exists(SessionOf(c))
               /\ dispatch = "redis" => SessionOf(c) \in channels
        /\ ~subscribe_pc[c].raised
\* the order of the InitializationState members
InitializationRank(state) ==
    CASE state = "NotInitialized" -> 1
      [] state = "Initializing" -> 2
      [] state = "Initialized" -> 3

\* C34: the server session's initialization state only moves forward,
\* NotInitialized to Initializing to Initialized: no inbound request or
\* notification moves it back, and a session that has reached Initialized
\* stays Initialized.
C34_InitializationOnlyForward ==
    [][InitializationRank(initialization_state')
            >= InitializationRank(initialization_state)]_vars

\* C35: a server session becomes Initialized only from Initializing, that is
\* after it has received and answered an initialize request: a
\* notifications/initialized taken up while the session is NotInitialized
\* leaves it NotInitialized and the gate closed.
C35_InitializedOnlyAfterInitialize ==
    [][(initialization_state # "Initialized" /\ initialization_state' = "Initialized")
            => initialization_state = "Initializing"]_vars
\* post_writer has left its loop
PostWriterStopped == post_pc = "done"

\* C37: whenever the Streamable HTTP client's post_writer has stopped, on an
\* HTTP error status, a network exception or the closure of the outbound
\* stream, the sending end of the client's inbound stream is closed, so a
\* session waiting for a response finds the end of the stream once it has
\* taken what was left in it.
C37_StoppedWriterClosesInbound ==
    /\ PostWriterStopped => read_stream_writer = "closed"
    /\ (PostWriterStopped /\ read_stream = <<>> /\ Awaited # {})
            => ENABLED ClientEndOfStream
    /\ client_pc = "end_of_stream" => read_stream_writer = "closed"

\* the POST of a tool call failed with a network exception while the session
\* was waiting for the response; the session saw the end of the stream and
\* the call failed
C37_Witness ==
    /\ PostWriterStopped
    /\ http_response.verb = "POST"
    /\ http_response.status = 200
    /\ client_pc = "end_of_stream"
    /\ CallId(1) \in DOMAIN results
    /\ results[CallId(1)] = ErrorData(0, "connection closed")

\* post_writer takes a notification or response that the server answers 404
PostsNonRequestAnswered404 ==
    /\ post_pc = "idle"
    /\ write_stream # <<>>
    /\ ~IsRequest(Head(write_stream).msg)
    /\ http_response'.n = http_response.n + 1
    /\ http_response'.by = "client"
    /\ http_response'.verb = "POST"
    /\ http_response'.status = 404

\* C38: a 404 answer to the POST of a notification or response does not stop
\* the Streamable HTTP client: the writer keeps running and the inbound
\* stream stays open.
C38_NotFoundKeepsWriterRunning ==
    [][PostsNonRequestAnswered404
            => post_pc' = "idle" /\ read_stream_writer' = "open"]_vars
\* C39: Server.run binds the request context only for the duration of one
\* handler call: while a handler runs the context variable holds the context
\* of the request being handled, and outside a handler call (after a result
\* or an exception, while another message is taken up, after the session shut
\* down) it is back at the value it had before, not set.
C39_ContextBoundToHandlerCall ==
    /\ run_pc = "handler" => request_ctx = RequestContext(message) /\ token.held
    /\ run_pc # "handler" => request_ctx = Unset /\ ~token.held

\* two requests had their handlers called, the first of them answered with
\* the handler's exception, and the context is not set while Server.run
\* awaits the next message
C39_Witness ==
    /\ Cardinality(invoked) = 2
    /\ run_pc = "recv"
    /\ session_open
    /\ \E id \in DOMAIN sent :
            \E i \in 1..Len(sent[id]) :
                sent[id][i].response = HandlerFailure("Unknown resource")
    /\ request_ctx = Unset
\* what stdout_reader delivers for a text that arrives as a single chunk
Delivery(text) ==
    [i \in 1..Len(popped(split(text))) |-> LineItem(popped(split(text))[i])]

\* the items of the lines still to send
ToSend == [i \in 1..Len(lines) |-> LineItem(lines[i])]

IsPrefix(a, b) == Len(a) <= Len(b) /\ SubSeq(b, 1, Len(a)) = a

\* C40: stdio_client delivers the same sequence of messages for a server
\* output however the output is cut into chunks: what has been delivered, and
\* what is about to be, is always the beginning of what the uncut output
\* gives, and when stdout ends every newline-terminated line of the output
\* has been delivered exactly once, in order.
C40_ChunkingDoesNotMatter ==
    /\ IsPrefix(stdout_inbound \o ToSend, Delivery(Joined(chunks)))
    /\ stdout_pc = "closed" => stdout_inbound = Delivery(Joined(chunks))

\* a JSON line cut by a chunk boundary, "{" and then "}" with the newline,
\* was delivered as one message
C40_Witness ==
    /\ chunks = << <<"{">>, <<"}", NewLine>> >>
    /\ stdout_pc = "closed"
    /\ stdout_inbound = <<LineItem(JsonRpcLine)>>
    /\ stdout_inbound[1].item = Decoded_Message
====
